---- MODULE Spec2Model ----
(***************************************************************************)
(* Product registry, price snapshots and price-drop detection of the       *)
(* amazon-price-drop-alert application (src/app).                          *)
(*                                                                         *)
(* The registry is the CSV object product_registry/product_registry.csv:   *)
(* a header line and rows of cells.  Readers (csv.DictReader) map the      *)
(* cells of a row to the names of the header; writers (csv.DictWriter)     *)
(* emit the cells in the order of their own fieldnames list.               *)
(* Snapshots are the CSV objects product_price_history/<day>.csv.          *)
(***************************************************************************)
EXTENDS Integers, Sequences, FiniteSets, TLC

VARIABLES
    registry,       \* the registry object: [header, rows], rows of cells
    product_cache,  \* S3DataHandler.product_cache: a set of ProductDTO
    files,          \* snapshot objects: key -> [LastModified, rows]
    today,          \* the calendar day (datetime.now())
    loadDay,        \* the day on which the module s3_data_handler was imported
    clock,          \* storage clock stamping LastModified
    ret,            \* the last call: operation, arguments, outcome
    run,            \* the invocation of AmazonPriceExtractor.run in progress
    outbox,         \* the messages that the mail transport accepted
    writers         \* the processes that write the registry, each with its copy

vars == <<registry, product_cache, files, today, loadDay, clock, ret, run, outbox, writers>>

----------------------------------------------------------------------------
(* Bounds of the model *)

MaxRegistry == 2    \* rows the registry may hold
MaxDay == 2         \* calendar days that pass
MaxUploads == 2     \* snapshot uploads

----------------------------------------------------------------------------
(* Values *)

None == "None"      \* Python's None

Falsy(v) == v = None \/ v = ""      \* "not v" for an Optional[str]

ID_SIZE == 16

PRODUCT_NAME_HEADER == "product_name"
PRODUCT_URL_HEADER == "product_url"
PRODUCT_ID_HEADER == "product_id"
ARCHIVED_HEADER == "archived"

Range(s) == {s[i] : i \in DOMAIN s}

\* The first (1-based) position of v in sequence s, 0 when absent.
IndexOf(s, v) ==
    IF v \in Range(s) THEN CHOOSE i \in DOMAIN s : s[i] = v /\ \A j \in 1..(i - 1) : s[j] # v
    ELSE 0

\* datetime.strftime("%Y-%m-%d") of the model's days
Digit == <<"1", "2", "3", "4", "5", "6", "7", "8", "9">>
strftime(day) == "2025-01-0" \o Digit[day]

\* str.lower() on the names that are entered
LowerTable == [s \in {"Widget", "widget", "Gadget"} |->
                 CASE s = "Widget" -> "widget"
                   [] s = "widget" -> "widget"
                   [] s = "Gadget" -> "gadget"]
lower(s) == IF s \in DOMAIN LowerTable THEN LowerTable[s] ELSE s

Names == DOMAIN LowerTable

----------------------------------------------------------------------------
(* AmazonURLProcessor *)

U_EXAMPLE == "https://example.com/dp/B000000001"
U_TRACKED == "https://www.amazon.com/Blue-Widget/dp/B000000001?th=1&psc=1"
U_CANON == "https://www.amazon.com/Blue-Widget/dp/B000000001"
U_GP == "https://www.amazon.com/gp/product/B000000002"
U_SEARCH == "https://www.amazon.com/s?k=widget"

\* the urls that are entered
Urls == {U_EXAMPLE, U_SEARCH}

\* urlparse(url).path.split("/")
path_parts(url) ==
    CASE url = U_EXAMPLE -> <<"", "dp", "B000000001">>
      [] url = U_TRACKED -> <<"", "Blue-Widget", "dp", "B000000001">>
      [] url = U_CANON -> <<"", "Blue-Widget", "dp", "B000000001">>
      [] url = U_GP -> <<"", "gp", "product", "B000000002">>
      [] url = U_SEARCH -> <<"", "s">>
      [] OTHER -> <<url>>

\* the group ([A-Z0-9]{10}) at the start of a path segment, "" when it does not match
AsinOf(segment) ==
    IF segment \in {"B000000001", "B000000002"} THEN segment ELSE ""

\* str.replace("-", " ") and str.replace(" ", "-") on the segments that occur
ReplaceDashBySpace(s) == IF s = "Blue-Widget" THEN "Blue Widget" ELSE s
ReplaceSpaceByDash(s) ==
    CASE s = "Blue Widget" -> "Blue-Widget"
      [] s = "Amazon Product" -> "Amazon-Product"
      [] OTHER -> s

\* re.search(r"/dp/([A-Z0-9]{10})|/gp/product/([A-Z0-9]{10})", path):
\* the ASIN of the leftmost match, "" when there is none
MatchAt(parts, i) ==
    IF parts[i] = "dp" /\ i + 1 <= Len(parts) /\ AsinOf(parts[i + 1]) # ""
    THEN AsinOf(parts[i + 1])
    ELSE IF parts[i] = "gp" /\ i + 2 <= Len(parts) /\ parts[i + 1] = "product"
            /\ AsinOf(parts[i + 2]) # ""
    THEN AsinOf(parts[i + 2])
    ELSE ""

asin_search(parts) ==
    LET hits == {i \in 2..Len(parts) : MatchAt(parts, i) # ""}
    IN  IF hits = {} THEN ""
        ELSE MatchAt(parts, CHOOSE i \in hits : \A j \in hits : i <= j)

_extract_product_name(url) ==
    LET parts == path_parts(url)
        dp == IndexOf(parts, "dp")      \* 1-based; Python's index is dp - 1
    IN  IF dp = 0 THEN "Amazon Product"
        ELSE IF dp = 1 THEN ReplaceDashBySpace(parts[Len(parts)])   \* path_parts[-1]
        ELSE ReplaceDashBySpace(parts[dp - 1])

\* the url kept as it was entered
simplified_url_as_entered(url) == url

get_simplified_amazon_url(url) ==
    LET asin == asin_search(path_parts(url))
    IN  IF asin # ""
        THEN "https://www.amazon.com/" \o ReplaceSpaceByDash(_extract_product_name(url))
                 \o "/dp/" \o asin
        ELSE "Invalid Amazon product URL: " \o url

----------------------------------------------------------------------------
(* ProductDTO and the registry file *)

ProductDTO(name, url, id, price, archived) ==
    [product_name |-> name, url |-> url, product_id |-> id,
     price |-> price, archived |-> archived]

\* The first ID_SIZE hex digits of sha256 of the concatenation name + url:
\* a value determined by the concatenated string.
hash_product_id(product_name, url) ==
    "sha256(" \o product_name \o url \o ")[:" \o ToString(ID_SIZE) \o "]"

\* the field order of the DictWriter of register_new_product and archive_product
Fieldnames ==
    <<PRODUCT_NAME_HEADER, PRODUCT_URL_HEADER, PRODUCT_ID_HEADER, ARCHIVED_HEADER>>

\* csv.DictReader: each row as a mapping from the header's names to its cells
DictReader(file) ==
    [i \in DOMAIN file.rows |->
        [h \in Range(file.header) |-> file.rows[i][IndexOf(file.header, h)]]]

\* csv.DictWriter.writerow: the cells of a mapping in the order of Fieldnames
WriteRow(row) == [k \in DOMAIN Fieldnames |-> row[Fieldnames[k]]]

RowDTO(row) ==
    ProductDTO(row[PRODUCT_NAME_HEADER], row[PRODUCT_URL_HEADER],
               row[PRODUCT_ID_HEADER], None, row[ARCHIVED_HEADER])

RECURSIVE SelectSeq2(_, _)
\* the subsequence of the elements of s that are in set keep
SelectSeq2(s, keep) ==
    IF s = <<>> THEN <<>>
    ELSE IF Head(s) \in keep THEN <<Head(s)>> \o SelectSeq2(Tail(s), keep)
    ELSE SelectSeq2(Tail(s), keep)

\* no product filtered out
_filter_nothing(products) == products

_filter_active_products(products) ==
    SelectSeq2(products, {p \in Range(products) : Falsy(p.archived)})

----------------------------------------------------------------------------
(* S3DataHandler: registry operations *)

\* the record of a call, completed by the fields the call sets
NoCall ==
    [op |-> "", name |-> "", url |-> "", id |-> "", ids |-> {},
     out |-> None, printed |-> {}, products |-> <<>>, dict |-> <<>>, drops |-> <<>>]

\* no invocation of run yet: the step it is in, the products listed with the
\* prices fetched, the index of the product to fetch next, the requests made
\* for each product, the products whose fetch failed, the drops detected, the
\* steps entered, the exception that ended it, the messages it sent, whether
\* quota exhaustion was signalled, the credential in use, and its number
NoRun ==
    [pc |-> "Idle", products |-> <<>>, i |-> 0, attempts |-> <<>>, failed |-> {},
     price_drops |-> <<>>, trace |-> <<>>, error |-> "", sent |-> 0,
     quota |-> FALSE, scraper_api_key_name |-> "SCRAPER_API_KEY", n |-> 0]

\* the writers of the registry, none at work: for each the step it is at, the
\* operation with its arguments, the copy of the registry it downloaded and
\* modified, its own cache, the updates it completed, its number of
\* operations, and whether an operation of it ran while one of the other did
NoWriters ==
    [w \in {1, 2} |->
        [pc |-> "idle", op |-> "", name |-> "", url |-> "", id |-> "",
         local |-> <<>>, product_cache |-> {}, completed |-> {}, n |-> 0,
         overlapped |-> FALSE]]

\* the check restricted to the rows that are not archived
product_exists_among_active(rows, product_name, url) ==
    \E i \in DOMAIN rows :
        /\ rows[i][ARCHIVED_HEADER] = ""
        /\ \/ lower(rows[i][PRODUCT_NAME_HEADER]) = lower(product_name)
           \/ rows[i][PRODUCT_URL_HEADER] = url

\* the check on the name alone
product_exists_by_name(rows, product_name, url) ==
    \E i \in DOMAIN rows :
        lower(rows[i][PRODUCT_NAME_HEADER]) = lower(product_name)

\* lines 219-229: a row of the registry has this name (compared in lower case)
\* or this url
product_exists(rows, product_name, url) ==
    \E i \in DOMAIN rows :
        \/ lower(rows[i][PRODUCT_NAME_HEADER]) = lower(product_name)
        \/ rows[i][PRODUCT_URL_HEADER] = url

\* register_new_product writing the new row over the file instead of appending
register_new_product_truncating(reg, cache, product_name, url, proceed) ==
    LET simplified_url == get_simplified_amazon_url(url)
        product_id == hash_product_id(product_name, simplified_url)
    IN  IF proceed = "n"
        THEN [registry |-> reg, cache |-> cache, result |-> None,
              printed |-> {"Operation cancelled."}]
        ELSE IF product_exists(DictReader(reg), product_name, simplified_url)
        THEN [registry |-> reg, cache |-> cache, result |-> None,
              printed |-> {"already exists in the registry."}]
        ELSE [registry |->
                  [reg EXCEPT !.rows = <<<<product_name, simplified_url, product_id, "">>>>],
              cache |-> cache \cup
                  {ProductDTO(product_name, simplified_url, product_id, None, "")},
              result |-> None,
              printed |-> {"Appended new product"}]

\* register_new_product: the registry, the cache, the value returned and the
\* messages printed
register_new_product(reg, cache, product_name, url, proceed) ==
    LET simplified_url == get_simplified_amazon_url(url)
        product_id == hash_product_id(product_name, simplified_url)
    IN  IF proceed = "n"
        THEN [registry |-> reg, cache |-> cache, result |-> None,
              printed |-> {"Operation cancelled."}]
        ELSE IF product_exists(DictReader(reg), product_name, simplified_url)
        THEN [registry |-> reg, cache |-> cache, result |-> None,
              printed |-> {"already exists in the registry."}]
        ELSE [registry |->
                  [reg EXCEPT !.rows =
                      Append(@, <<product_name, simplified_url, product_id, "">>)],
              cache |-> cache \cup
                  {ProductDTO(product_name, simplified_url, product_id, None, "")},
              result |-> None,      \* the function ends without a return statement
              printed |-> {"Appended new product"}]

RegisterNewProduct ==
    \E product_name \in Names, url \in Urls, proceed \in {"y", "n"} :
        LET r == register_new_product(registry, product_cache, product_name, url, proceed)
        IN  /\ Len(r.registry.rows) <= MaxRegistry
            /\ registry' = r.registry
            /\ product_cache' = r.cache
            /\ ret' = [op |-> "register_new_product", name |-> product_name,
                       url |-> url, out |-> r.result,
                       printed |-> r.printed] @@ NoCall
            /\ UNCHANGED <<files, today, loadDay, clock, run, outbox, writers>>

\* _handle_register_new_product: the menu entry "Register New Product".  The url
\* is asked for only after the name has passed, the confirmation only inside
\* register_new_product.
HandleRegisterNewProduct ==
    LET rows == DictReader(registry)
        all_names == {lower(rows[i][PRODUCT_NAME_HEADER]) : i \in DOMAIN rows}
        call == [op |-> "_handle_register_new_product"] @@ NoCall
    IN  \E product_name \in Names \cup {""} :
        IF product_name = ""
        THEN /\ ret' = [call EXCEPT !.printed = {"Product name cannot be empty."}]
             /\ UNCHANGED <<registry, product_cache, files, today, loadDay, clock, run, outbox, writers>>
        ELSE IF lower(product_name) \in all_names
        THEN /\ ret' = [call EXCEPT !.name = product_name,
                                    !.printed = {"already exists in the registry."}]
             /\ UNCHANGED <<registry, product_cache, files, today, loadDay, clock, run, outbox, writers>>
        ELSE \E product_url \in Urls \cup {""} :
            IF product_url = ""
            THEN /\ ret' = [call EXCEPT !.name = product_name,
                                        !.printed = {"Product URL cannot be empty."}]
                 /\ UNCHANGED <<registry, product_cache, files, today, loadDay, clock, run, outbox, writers>>
            ELSE \E proceed \in {"y", "n"} :
                LET r == register_new_product(registry, product_cache, product_name,
                                              product_url, proceed)
                IN  /\ Len(r.registry.rows) <= MaxRegistry
                    /\ registry' = r.registry
                    /\ product_cache' = r.cache
                    /\ ret' = [call EXCEPT
                          !.name = product_name, !.url = product_url,
                          !.printed = r.printed \cup
                              (IF ~Falsy(r.result) THEN {"registered successfully!"}
                               ELSE {})]
                    /\ UNCHANGED <<files, today, loadDay, clock, run, outbox, writers>>

\* list_registered_products: every row enters the cache, the active ones are returned
list_registered_products(reg, cache) ==
    LET rows == DictReader(reg)
        products == [i \in DOMAIN rows |-> RowDTO(rows[i])]
    IN  [cache |-> cache \cup Range(products),
         result |-> _filter_active_products(products)]

ListRegisteredProducts ==
    LET r == list_registered_products(registry, product_cache)
    IN  /\ product_cache' = r.cache
        /\ ret' = [op |-> "list_registered_products", out |-> "list",
                   products |-> r.result] @@ NoCall
        /\ UNCHANGED <<registry, files, today, loadDay, clock, run, outbox, writers>>

\* _get_product_from_cache returns the first match of an iteration over a set:
\* any of these
cache_matches(cache, product_id) ==
    {p \in cache : p.product_id = product_id /\ Falsy(p.archived)}

\* every row gets today's date
archive_rows_all(rows, product_id, date) ==
    [i \in DOMAIN rows |-> [rows[i] EXCEPT ![ARCHIVED_HEADER] = date]]

\* archive_product: the rows whose product_id is the given one get today's date;
\* the file is rewritten with the header Fieldnames, and the cache is cleared
archive_rows(rows, product_id, date) ==
    [i \in DOMAIN rows |->
        IF rows[i][PRODUCT_ID_HEADER] = product_id
        THEN [rows[i] EXCEPT ![ARCHIVED_HEADER] = date]
        ELSE rows[i]]

\* archive_product without line 502 (the cache is kept)
archive_product_keeps_cache(reg, cache, product_id, day) ==
    LET rows == DictReader(reg)
        product_found == \E i \in DOMAIN rows : rows[i][PRODUCT_ID_HEADER] = product_id
        products == archive_rows(rows, product_id, strftime(day))
    IN  IF ~product_found
        THEN [registry |-> reg, cache |-> cache, result |-> FALSE]
        ELSE [registry |-> [header |-> Fieldnames,
                            rows |-> [i \in DOMAIN products |-> WriteRow(products[i])]],
              cache |-> cache,
              result |-> TRUE]

archive_product(reg, cache, product_id, day) ==
    LET rows == DictReader(reg)
        product_found == \E i \in DOMAIN rows : rows[i][PRODUCT_ID_HEADER] = product_id
        products == archive_rows(rows, product_id, strftime(day))
    IN  IF ~product_found
        THEN [registry |-> reg, cache |-> cache, result |-> FALSE]
        ELSE [registry |-> [header |-> Fieldnames,
                            rows |-> [i \in DOMAIN products |-> WriteRow(products[i])]],
              cache |-> {},
              result |-> TRUE]

UNKNOWN_ID == hash_product_id("Gizmo", U_CANON)     \* an id that is never registered

RegistryIds == {DictReader(registry)[i][PRODUCT_ID_HEADER] : i \in DOMAIN registry.rows}

ArchiveProduct ==
    \E product_id \in RegistryIds \cup {UNKNOWN_ID} :
        LET r == archive_product(registry, product_cache, product_id, today)
        IN  /\ registry' = r.registry
            /\ product_cache' = r.cache
            /\ ret' = [op |-> "archive_product", id |-> product_id,
                       out |-> IF r.result THEN "True" ELSE "False"] @@ NoCall
            /\ UNCHANGED <<files, today, loadDay, clock, run, outbox, writers>>

\* _handle_archive_product: the menu entry "Archive Product"; an invalid
\* selection or a refused confirmation asks again, so the flow ends with the
\* archival of one of the listed products
HandleArchiveProduct ==
    LET l == list_registered_products(registry, product_cache)
        call == [op |-> "_handle_archive_product"] @@ NoCall
    IN  IF l.result = <<>>
        THEN /\ product_cache' = l.cache
             /\ ret' = [call EXCEPT !.printed = {"No active products to archive."}]
             /\ UNCHANGED <<registry, files, today, loadDay, clock, run, outbox, writers>>
        ELSE \E selected_number \in DOMAIN l.result :
                LET selected_product == l.result[selected_number]
                    r == archive_product(registry, l.cache,
                                         selected_product.product_id, today)
                IN  /\ registry' = r.registry
                    /\ product_cache' = r.cache
                    /\ ret' = [call EXCEPT
                          !.id = selected_product.product_id,
                          !.out = IF r.result THEN "True" ELSE "False",
                          !.printed = IF r.result THEN {"has been archived successfully!"}
                                      ELSE {"Failed to archive the product."}]
                    /\ UNCHANGED <<files, today, loadDay, clock, run, outbox, writers>>

----------------------------------------------------------------------------
(* S3DataHandler: lookups *)

\* get_products_with_ids without the filter of line 186
get_products_with_ids_unfiltered(reg, cache, product_ids, pick) ==
    LET rows == DictReader(reg)
        cached == {id \in product_ids : cache_matches(cache, id) # {}}
        rest == product_ids \ cached
        found == {i \in DOMAIN rows :
                    /\ rows[i][PRODUCT_ID_HEADER] \in rest
                    /\ \A j \in 1..(i - 1) :
                          rows[j][PRODUCT_ID_HEADER] # rows[i][PRODUCT_ID_HEADER]}
        found_ids == {rows[i][PRODUCT_ID_HEADER] : i \in found}
        products == [id \in cached \cup found_ids |->
                        IF id \in cached THEN pick[id]
                        ELSE RowDTO(rows[CHOOSE i \in found :
                                             rows[i][PRODUCT_ID_HEADER] = id])]
        active == DOMAIN products
        new_cache == cache \cup {RowDTO(rows[i]) : i \in found}
    IN  IF rest \ found_ids # {}
        THEN [cache |-> new_cache, raised |-> "KeyError", result |-> <<>>]
        ELSE [cache |-> new_cache, raised |-> "",
              result |-> [id \in active |-> products[id]]]

\* get_products_with_ids: ids served by the cache (pick is the match returned
\* by _get_product_from_cache for each of them), the others by the first row of
\* the registry with that id; KeyError when an id is left, else the active ones
get_products_with_ids(reg, cache, product_ids, pick) ==
    LET rows == DictReader(reg)
        cached == {id \in product_ids : cache_matches(cache, id) # {}}
        rest == product_ids \ cached
        found == {i \in DOMAIN rows :
                    /\ rows[i][PRODUCT_ID_HEADER] \in rest
                    /\ \A j \in 1..(i - 1) :
                          rows[j][PRODUCT_ID_HEADER] # rows[i][PRODUCT_ID_HEADER]}
        found_ids == {rows[i][PRODUCT_ID_HEADER] : i \in found}
        products == [id \in cached \cup found_ids |->
                        IF id \in cached THEN pick[id]
                        ELSE RowDTO(rows[CHOOSE i \in found :
                                             rows[i][PRODUCT_ID_HEADER] = id])]
        active == {id \in DOMAIN products : Falsy(products[id].archived)}
        new_cache == cache \cup {RowDTO(rows[i]) : i \in found}
    IN  IF rest \ found_ids # {}
        THEN [cache |-> new_cache, raised |-> "KeyError", result |-> <<>>]
        ELSE [cache |-> new_cache, raised |-> "",
              result |-> [id \in active |-> products[id]]]

\* the choices of _get_product_from_cache for the ids the cache serves
Picks(cache, product_ids) ==
    LET cached == {id \in product_ids : cache_matches(cache, id) # {}}
    IN  {pick \in [cached -> cache] : \A id \in cached : pick[id] \in cache_matches(cache, id)}

GetProductsWithIds ==
    \E product_ids \in SUBSET (RegistryIds \cup {UNKNOWN_ID}) :
    \E pick \in Picks(product_cache, product_ids) :
        LET r == get_products_with_ids(registry, product_cache, product_ids, pick)
        IN  /\ product_cache' = r.cache
            /\ ret' = [op |-> "get_products_with_ids", ids |-> product_ids,
                       out |-> IF r.raised # "" THEN r.raised ELSE "dict",
                       dict |-> r.result] @@ NoCall
            /\ UNCHANGED <<registry, files, today, loadDay, clock, run, outbox, writers>>

\* get_product_by_id: the cached product, else get_products_with_ids([id])[id]
get_product_by_id(reg, cache, product_id, pick) ==
    LET r == get_products_with_ids(reg, cache, {product_id}, pick)
    IN  IF cache_matches(cache, product_id) # {}
        THEN [cache |-> cache, raised |-> "", result |-> <<pick[product_id]>>]
        ELSE IF r.raised # "" \/ product_id \notin DOMAIN r.result
        THEN [cache |-> r.cache, raised |-> "KeyError", result |-> <<>>]
        ELSE [cache |-> r.cache, raised |-> "", result |-> <<r.result[product_id]>>]

GetProductById ==
    \E product_id \in RegistryIds \cup {UNKNOWN_ID} :
    \E pick \in Picks(product_cache, {product_id}) :
        LET r == get_product_by_id(registry, product_cache, product_id, pick)
        IN  /\ product_cache' = r.cache
            /\ ret' = [op |-> "get_product_by_id", id |-> product_id,
                       out |-> IF r.raised # "" THEN r.raised ELSE "product",
                       products |-> r.result] @@ NoCall
            /\ UNCHANGED <<registry, files, today, loadDay, clock, run, outbox, writers>>

----------------------------------------------------------------------------
(* Time and processes *)

\* midnight passes
NextDay ==
    /\ today < MaxDay
    /\ today' = today + 1
    /\ UNCHANGED <<registry, product_cache, files, loadDay, clock, ret, run, outbox, writers>>

\* a new process imports the module: S3_PRICE_HISTORY_FILE_KEY is computed
\* (line 14) and the singleton is constructed with an empty cache (line 56);
\* the process has no run in progress
NewProcess ==
    /\ run.pc \in {"Idle", "Done", "Failed"}
    /\ loadDay' = today
    /\ product_cache' = {}
    /\ ret' = [op |-> "import"] @@ NoCall
    /\ UNCHANGED <<registry, files, today, clock, run, outbox, writers>>

----------------------------------------------------------------------------
(* One process working on the registry, from an empty registry file *)

\* the registry file holds the header that the program's own writers emit
\* (archive_product, lines 485-494) and no row; a new process has an empty cache
Init ==
    /\ registry = [header |-> Fieldnames, rows |-> <<>>]
    /\ product_cache = {}
    /\ files = <<>>
    /\ today = 1
    /\ loadDay = 1
    /\ clock = 0
    /\ ret = [op |-> "import"] @@ NoCall
    /\ run = NoRun
    /\ outbox = <<>>
    /\ writers = NoWriters

Next ==
    \/ RegisterNewProduct
    \/ HandleRegisterNewProduct
    \/ ListRegisteredProducts
    \/ ArchiveProduct
    \/ HandleArchiveProduct
    \/ GetProductsWithIds
    \/ GetProductById
    \/ NextDay

Spec == Init /\ [][Next]_vars

----------------------------------------------------------------------------
(* The same process, on a registry file with the documented header *)

\* line 17: "product registry csv file header: product_id,product_name,
\* product_url,archived"
DocumentedHeader ==
    <<PRODUCT_ID_HEADER, PRODUCT_NAME_HEADER, PRODUCT_URL_HEADER, ARCHIVED_HEADER>>

InitDocumented ==
    /\ registry = [header |-> DocumentedHeader, rows |-> <<>>]
    /\ product_cache = {}
    /\ files = <<>>
    /\ today = 1
    /\ loadDay = 1
    /\ clock = 0
    /\ ret = [op |-> "import"] @@ NoCall
    /\ run = NoRun
    /\ outbox = <<>>
    /\ writers = NoWriters

\* register and archive operations, and the reading back of the records
NextDocumented ==
    \/ RegisterNewProduct
    \/ ArchiveProduct
    \/ ListRegisteredProducts
    \/ NextDay

SpecDocumented == InitDocumented /\ [][NextDocumented]_vars

----------------------------------------------------------------------------
(* Properties of the registry operations *)

Rows == DictReader(registry)

ListActive == list_registered_products(registry, product_cache).result

ActiveIds == {ListActive[i].product_id : i \in DOMAIN ListActive}

ArchivedIds ==
    {Rows[i][PRODUCT_ID_HEADER] : i \in {j \in DOMAIN Rows : Rows[j][ARCHIVED_HEADER] # ""}}

Appended == "Appended new product" \in ret.printed

\* the url that is stored for each url that is entered
StoredUrl(url) ==
    CASE url = U_EXAMPLE -> "https://www.amazon.com//dp/B000000001"
      [] url = U_SEARCH -> "Invalid Amazon product URL: https://www.amazon.com/s?k=widget"
      [] OTHER -> url

\* the entries of list_active() with this name, this url and an empty archived_on
Listed(name, url) ==
    {i \in DOMAIN ListActive :
        /\ ListActive[i].product_name = name
        /\ ListActive[i].url = url
        /\ ListActive[i].archived = ""}

\* C3 as stated: after a successful register(name, url), list_active() holds
\* exactly one product with that name, the url that was passed, and an empty
\* archived_on.
C3_ListedWithPassedUrl ==
    (ret.op = "register_new_product" /\ Appended)
        => Cardinality(Listed(ret.name, ret.url)) = 1

\* C3 amended: after a successful register(name, url), list_active() holds
\* exactly one product with that name and an empty archived_on, and its url is
\* the simplified form of the url that was passed (for the url
\* https://example.com/dp/B000000001: https://www.amazon.com//dp/B000000001).
C3_ListedWithSimplifiedUrl ==
    (ret.op = "register_new_product" /\ Appended)
        => /\ Cardinality(Listed(ret.name, StoredUrl(ret.url))) = 1
           /\ Cardinality({i \in DOMAIN ListActive :
                              ListActive[i].product_name = ret.name}) = 1

C3_Witness ==
    /\ ret.op = "register_new_product"
    /\ Appended
    /\ ret.name = "Widget"
    /\ ret.url = U_EXAMPLE
    /\ Len(ListActive) = 2

\* a step of register_new_product or of the menu entry in which name and url
\* were entered and the question "Do you want to proceed?" was answered yes
RegisterStep ==
    /\ today' = today
    /\ ret'.op \in {"register_new_product", "_handle_register_new_product"}
    /\ ret'.printed \cap {"Operation cancelled.", "Product name cannot be empty.",
                          "Product URL cannot be empty."} = {}

\* a row among `among` has the name just entered (in lower case) or, when a url
\* was entered, its stored form
SameNameOrUrl(among) ==
    \E i \in among :
        \/ lower(Rows[i][PRODUCT_NAME_HEADER]) = lower(ret'.name)
        \/ ret'.url # "" /\ Rows[i][PRODUCT_URL_HEADER] = StoredUrl(ret'.url)

DuplicateSignalled ==
    /\ ret'.printed = {"already exists in the registry."}
    /\ registry' = registry
    /\ product_cache' = product_cache

OneRecordAppended ==
    /\ "Appended new product" \in ret'.printed
    /\ registry'.header = registry.header
    /\ Len(registry'.rows) = Len(registry.rows) + 1
    /\ SubSeq(registry'.rows, 1, Len(registry.rows)) = registry.rows
    /\ LET new == DictReader(registry')[Len(registry'.rows)]
       IN  /\ new[PRODUCT_NAME_HEADER] = ret'.name
           /\ new[PRODUCT_URL_HEADER] = StoredUrl(ret'.url)
           /\ new[ARCHIVED_HEADER] = ""

\* C4 as stated: register signals a duplicate and changes nothing exactly when
\* an ACTIVE record has the same name or url; otherwise (also when only an
\* archived record has them) it appends one record with empty archived_on.
C4_DuplicateIffActiveRecord ==
    [][RegisterStep =>
        IF SameNameOrUrl({i \in DOMAIN Rows : Rows[i][ARCHIVED_HEADER] = ""})
        THEN DuplicateSignalled
        ELSE OneRecordAppended]_vars

\* C4 amended: a confirmed register signals a duplicate and leaves the registry
\* and the cache unchanged exactly when SOME record, active or archived, has
\* the same name compared in lower case or the same stored url; in every other
\* confirmed case it appends exactly one record with empty archived_on.
C4_DuplicateIffAnyRecord ==
    [][RegisterStep =>
        IF SameNameOrUrl(DOMAIN Rows)
        THEN DuplicateSignalled
        ELSE OneRecordAppended]_vars

C4_Witness ==
    /\ ret.op = "register_new_product"
    /\ ret.printed = {"already exists in the registry."}
    /\ \E i \in DOMAIN Rows :
          /\ Rows[i][ARCHIVED_HEADER] # ""
          /\ lower(Rows[i][PRODUCT_NAME_HEADER]) = lower(ret.name)
    /\ \A i \in DOMAIN Rows :
          Rows[i][ARCHIVED_HEADER] = "" =>
              /\ lower(Rows[i][PRODUCT_NAME_HEADER]) # lower(ret.name)
              /\ Rows[i][PRODUCT_URL_HEADER] # StoredUrl(ret.url)

\* C5: a successful register returns the id of the new product (the hash of
\* the name and the stored url), and the menu entry reports success exactly
\* when the product was appended.
C5_RegisterReturnsId ==
    /\ (ret.op = "register_new_product" /\ Appended)
          => ret.out = hash_product_id(ret.name, StoredUrl(ret.url))
    /\ ret.op = "_handle_register_new_product"
          => ("registered successfully!" \in ret.printed <=> Appended)

\* C6: after archive(id) succeeds, id is absent from list_active(), and it stays
\* absent after any later operation: a record that is archived stays in place
\* with a non-empty archived field, and no archived id is listed as active.
C6_ArchiveMonotonic ==
    /\ [](/\ (ret.op \in {"archive_product", "_handle_archive_product"}
                 /\ ret.out = "True") => ret.id \notin ActiveIds
          /\ ArchivedIds \cap ActiveIds = {})
    /\ [][\A i \in DOMAIN Rows :
            Rows[i][ARCHIVED_HEADER] # "" =>
                /\ i \in DOMAIN registry'.rows
                /\ DictReader(registry')[i][PRODUCT_ID_HEADER] = Rows[i][PRODUCT_ID_HEADER]
                /\ DictReader(registry')[i][ARCHIVED_HEADER] # ""]_vars

C6_Witness ==
    /\ ret.op = "register_new_product"
    /\ Appended
    /\ \E i \in DOMAIN Rows : Rows[i][ARCHIVED_HEADER] = strftime(1)
    /\ today = 2

\* C7: archive(id) applied to an id that is already archived leaves the
\* registry exactly as the first call left it, also on a later day.
C7_SecondArchiveIsNoOp ==
    [][(/\ today' = today
        /\ ret'.op = "archive_product"
        /\ ret'.id \in ArchivedIds) => registry' = registry]_vars

\* the ids of ret.ids by the state of their registry record
RequestedActive ==
    {id \in ret.ids : \E i \in DOMAIN Rows :
        Rows[i][PRODUCT_ID_HEADER] = id /\ Rows[i][ARCHIVED_HEADER] = ""}
RequestedAbsent ==
    {id \in ret.ids : \A i \in DOMAIN Rows : Rows[i][PRODUCT_ID_HEADER] # id}

\* C8 as stated: get_products_with_ids(ids) fails with a not-found error
\* whenever a requested id has no ACTIVE record, be it absent or archived.
C8_NotFoundUnlessAllActive ==
    (ret.op = "get_products_with_ids" /\ RequestedActive # ret.ids)
        => ret.out = "KeyError"

\* C8 amended: get_products_with_ids(ids) fails with KeyError exactly when a
\* requested id has no record at all in the registry; otherwise it returns the
\* mapping of exactly the requested ids whose record is active, each to the
\* fields of its record: the ids whose record is archived are left out of it.
C8_NotFoundIffAbsent ==
    ret.op = "get_products_with_ids" =>
        IF RequestedAbsent # {} THEN ret.out = "KeyError"
        ELSE /\ ret.out = "dict"
             /\ DOMAIN ret.dict = RequestedActive
             /\ \A id \in DOMAIN ret.dict :
                   \E i \in DOMAIN Rows :
                       /\ Rows[i][PRODUCT_ID_HEADER] = id
                       /\ Rows[i][PRODUCT_NAME_HEADER] = ret.dict[id].product_name
                       /\ Rows[i][PRODUCT_URL_HEADER] = ret.dict[id].url
                       /\ ret.dict[id].product_id = id
                       /\ ret.dict[id].archived = ""

C8_Witness ==
    /\ ret.op = "get_products_with_ids"
    /\ ret.out = "dict"
    /\ Cardinality(ret.ids) = 2
    /\ Cardinality(DOMAIN ret.dict) = 1
    /\ ret.ids \cap ArchivedIds # {}

\* the products that the last lookup returned
Returned ==
    CASE ret.op = "get_product_by_id" -> Range(ret.products)
      [] ret.op = "get_products_with_ids" -> Range(ret.dict)
      [] OTHER -> {}

\* C9: no lookup returns an archived product: whatever get_product_by_id or
\* get_products_with_ids returns, after any sequence of register, list, lookup
\* and archive operations, has an active record in the registry.
C9_LookupsReturnActiveOnly ==
    \A p \in Returned :
        \E i \in DOMAIN Rows :
            /\ Rows[i][PRODUCT_ID_HEADER] = p.product_id
            /\ Rows[i][PRODUCT_NAME_HEADER] = p.product_name
            /\ Rows[i][ARCHIVED_HEADER] = ""

C9_Witness ==
    /\ ret.op = "get_products_with_ids"
    /\ ret.ids \cap ArchivedIds # {}
    /\ ret.out = "dict"
    /\ DOMAIN ret.dict # {}
    /\ \E p \in product_cache : p.archived # ""

----------------------------------------------------------------------------
(* S3DataHandler: price snapshots *)

S3_PRICE_HISTORY_DIRECTORY == "product_price_history"

\* line 14: the key is computed once, when the module is imported
S3_PRICE_HISTORY_FILE_KEY == S3_PRICE_HISTORY_DIRECTORY \o "/" \o strftime(loadDay) \o ".csv"

\* price strings that a scrape yields
Prices == {"9.99", "10.00"}

Infinity == 1000000000

\* float(): hundredths for the strings that parse, ValueError for the others
can_float(v) == v \in {"9.99", "10.00", "inf"}
float(v) ==
    CASE v = "9.99" -> 999
      [] v = "10.00" -> 1000
      [] v = "inf" -> Infinity

RECURSIVE rows_to_dict(_)
\* get_prices_from_file: the rows as a dict {product_id: price}, a later row of
\* an id replacing the price of an earlier one; keys in order of first insertion
rows_to_dict(rows) ==
    IF rows = <<>> THEN [keys |-> <<>>, val |-> <<>>]
    ELSE LET d == rows_to_dict(SubSeq(rows, 1, Len(rows) - 1))
             row == rows[Len(rows)]
         IN  [keys |-> IF row.product_id \in Range(d.keys) THEN d.keys
                       ELSE Append(d.keys, row.product_id),
              val |-> (row.product_id :> row.price) @@ d.val]

get_prices_from_file(file_key) == rows_to_dict(files[file_key].rows)

\* dict.get(key, default)
dict_get(d, key, default) == IF key \in DOMAIN d.val THEN d.val[key] ELSE default

\* a row for every product, with or without a price
store_prices_all_products(products, day) ==
    [i \in DOMAIN products |->
        [product_id |-> products[i].product_id, date |-> strftime(day),
         price |-> products[i].price]]

\* store_prices: a row for each product that has a price, uploaded under the key
store_prices(products, day) ==
    LET priced == SelectSeq2(products, {p \in Range(products) : ~Falsy(p.price)})
    IN  [i \in DOMAIN priced |->
            [product_id |-> priced[i].product_id, date |-> strftime(day),
             price |-> priced[i].price]]

\* a "directory" key: one that ends with "/" (line 75)
IsDirectoryKey(key) == key = S3_PRICE_HISTORY_DIRECTORY \o "/"

\* lines 74-76: the keys listed under the prefix that are not "directory" keys
files_only == {key \in DOMAIN files : ~IsDirectoryKey(key)}

\* the keys of the snapshot objects, the most recently modified first
sorted_files ==
    LET keys == files_only
    IN  CHOOSE seq \in [1..Cardinality(keys) -> keys] :
            /\ Range(seq) = keys
            /\ \A i, j \in DOMAIN seq :
                  i < j => files[seq[i]].LastModified > files[seq[j]].LastModified

\* the empty dict
EmptyDict == [keys |-> <<>>, val |-> <<>>]

\* the two most recent files taken in the order of their keys (the dates of
\* their labels), the later label as the current one
get_two_most_recent_prices_by_label ==
    LET later(a, b) == \E d \in 1..Len(Digit), e \in 1..Len(Digit) :
                          /\ d > e
                          /\ a = S3_PRICE_HISTORY_DIRECTORY \o "/" \o strftime(d) \o ".csv"
                          /\ b = S3_PRICE_HISTORY_DIRECTORY \o "/" \o strftime(e) \o ".csv"
        a == sorted_files[1]
        b == sorted_files[2]
    IN  IF DOMAIN files = {}
        THEN [raised |-> "", returned |-> "[]", previous |-> EmptyDict, current |-> EmptyDict]
        ELSE IF Cardinality(files_only) < 2
        THEN [raised |-> "ValueError", returned |-> "",
              previous |-> EmptyDict, current |-> EmptyDict]
        ELSE [raised |-> "", returned |-> "tuple",
              previous |-> get_prices_from_file(IF later(a, b) THEN b ELSE a),
              current |-> get_prices_from_file(IF later(a, b) THEN a ELSE b)]

\* a single file compared with an empty previous snapshot
get_two_most_recent_prices_lenient ==
    IF Cardinality(files_only) = 0
    THEN [raised |-> "", returned |-> "tuple", previous |-> EmptyDict, current |-> EmptyDict]
    ELSE IF Cardinality(files_only) = 1
    THEN [raised |-> "", returned |-> "tuple", previous |-> EmptyDict,
          current |-> get_prices_from_file(sorted_files[1])]
    ELSE [raised |-> "", returned |-> "tuple",
          previous |-> get_prices_from_file(sorted_files[2]),
          current |-> get_prices_from_file(sorted_files[1])]

\* get_two_most_recent_prices: without "Contents" in the listing the list [] is
\* returned (lines 71-72); unpacking fewer than two keys raises ValueError
\* (lines 83-85); else (previous, current) are the prices of the second and of
\* the first of the files sorted by LastModified, descending
get_two_most_recent_prices ==
    IF DOMAIN files = {}
    THEN [raised |-> "", returned |-> "[]", previous |-> EmptyDict, current |-> EmptyDict]
    ELSE IF Cardinality(files_only) < 2
    THEN [raised |-> "ValueError", returned |-> "",
          previous |-> EmptyDict, current |-> EmptyDict]
    ELSE [raised |-> "", returned |-> "tuple",
          previous |-> get_prices_from_file(sorted_files[2]),
          current |-> get_prices_from_file(sorted_files[1])]

\* a call of get_two_most_recent_prices
GetTwoMostRecentPrices ==
    LET t == get_two_most_recent_prices
    IN  /\ ret' = [op |-> "get_two_most_recent_prices",
                   out |-> IF t.raised # "" THEN t.raised ELSE t.returned,
                   dict |-> <<t.previous, t.current>>] @@ NoCall
        /\ UNCHANGED <<registry, product_cache, files, today, loadDay, clock, run, outbox, writers>>

\* extract_price_for_all_registered_products (lines 116-144, every fetch ending
\* with a price or with an exception other than quota exhaustion) and
\* store_product_prices: lines 182-183 of run.  The price is set on the listed
\* objects; no lookup reads the price of a cached object, and the cache is kept
\* with the objects as list_registered_products entered them.
ExtractAndStore ==
    /\ clock < MaxUploads
    /\ LET l == list_registered_products(registry, product_cache)
       IN  \E fetched \in [DOMAIN l.result -> Prices \cup {None}] :
              LET products == [i \in DOMAIN l.result |->
                                  [l.result[i] EXCEPT !.price = fetched[i]]]
              IN  /\ product_cache' = l.cache
                  /\ files' = (S3_PRICE_HISTORY_FILE_KEY :>
                                  [LastModified |-> clock + 1,
                                   rows |-> store_prices(products, today)]) @@ files
                  /\ clock' = clock + 1
                  /\ ret' = [op |-> "store_prices", products |-> products] @@ NoCall
    /\ UNCHANGED <<registry, today, loadDay, run, outbox, writers>>

----------------------------------------------------------------------------
(* PriceDataProcessor.check_price_drops *)

PriceDropDTO(product_info, product_id, previous_price, current_price) ==
    [product_name |-> product_info.product_name, url |-> product_info.url,
     product_id |-> product_id, previous_price |-> previous_price,
     current_price |-> current_price, price_chart_path |-> None]

\* the comparison of lines 56-57 cannot be evaluated for a key of previous_prices
drop_test_raises(previous_prices, current_prices) ==
    \E id \in Range(previous_prices.keys) :
        \/ ~can_float(dict_get(current_prices, id, "inf"))
        \/ ~can_float(previous_prices.val[id])

\* lines 53-58 with "<=" for "<"
product_ids_with_drops_or_equal(previous_prices, current_prices) ==
    SelectSeq2(previous_prices.keys,
               {id \in Range(previous_prices.keys) :
                   float(dict_get(current_prices, id, "inf"))
                       <= float(previous_prices.val[id])})

\* lines 53-58 with the price of an absent product taken as "9.99"
product_ids_with_drops_absent_cheap(previous_prices, current_prices) ==
    SelectSeq2(previous_prices.keys,
               {id \in Range(previous_prices.keys) :
                   float(dict_get(current_prices, id, "9.99"))
                       < float(previous_prices.val[id])})

\* lines 53-58: the keys of previous_prices whose current price, float("inf")
\* when absent, is lower
product_ids_with_drops(previous_prices, current_prices) ==
    SelectSeq2(previous_prices.keys,
               {id \in Range(previous_prices.keys) :
                   float(dict_get(current_prices, id, "inf"))
                       < float(previous_prices.val[id])})

\* the ids that check_price_drops passes to get_products_with_ids
ids_looked_up ==
    LET t == get_two_most_recent_prices
    IN  IF t.returned # "tuple" \/ drop_test_raises(t.previous, t.current) THEN {}
        ELSE Range(product_ids_with_drops(t.previous, t.current))

\* check_price_drops passing over the prices that do not parse
check_price_drops_skipping_malformed(reg, cache, pick) ==
    LET without_malformed(d) ==
            [keys |-> SelectSeq2(d.keys, {id \in Range(d.keys) : can_float(d.val[id])}),
             val |-> [id \in {k \in DOMAIN d.val : can_float(d.val[k])} |-> d.val[id]]]
        t == get_two_most_recent_prices
        previous == without_malformed(t.previous)
        current == without_malformed(t.current)
        ids == product_ids_with_drops(previous, current)
        g == get_products_with_ids(reg, cache, Range(ids), pick)
    IN  IF t.raised # ""
        THEN [cache |-> cache, raised |-> t.raised, result |-> <<>>]
        ELSE IF t.returned = "[]"
        THEN [cache |-> cache, raised |-> "ValueError", result |-> <<>>]
        ELSE IF g.raised # ""
        THEN [cache |-> g.cache, raised |-> g.raised, result |-> <<>>]
        ELSE IF \E i \in DOMAIN ids :
                    \/ ids[i] \notin DOMAIN current.val
                    \/ ids[i] \notin DOMAIN g.result
        THEN [cache |-> g.cache, raised |-> "KeyError", result |-> <<>>]
        ELSE [cache |-> g.cache, raised |-> "",
              result |-> [i \in DOMAIN ids |->
                             PriceDropDTO(g.result[ids[i]], ids[i],
                                          previous.val[ids[i]],
                                          current.val[ids[i]])]]

check_price_drops(reg, cache, pick) ==
    LET t == get_two_most_recent_prices
        ids == product_ids_with_drops(t.previous, t.current)
        g == get_products_with_ids(reg, cache, Range(ids), pick)
    IN  IF t.raised # ""
        THEN [cache |-> cache, raised |-> t.raised, result |-> <<>>]
        ELSE IF t.returned = "[]"       \* lines 49-51: the list [] cannot be unpacked
        THEN [cache |-> cache, raised |-> "ValueError", result |-> <<>>]
        ELSE IF drop_test_raises(t.previous, t.current)
        THEN [cache |-> cache, raised |-> "ValueError", result |-> <<>>]
        ELSE IF g.raised # ""
        THEN [cache |-> g.cache, raised |-> g.raised, result |-> <<>>]
        ELSE IF \E i \in DOMAIN ids :
                    \/ ids[i] \notin DOMAIN t.current.val      \* line 65
                    \/ ids[i] \notin DOMAIN g.result           \* line 66
        THEN [cache |-> g.cache, raised |-> "KeyError", result |-> <<>>]
        ELSE [cache |-> g.cache, raised |-> "",
              result |-> [i \in DOMAIN ids |->
                             PriceDropDTO(g.result[ids[i]], ids[i],
                                          t.previous.val[ids[i]],
                                          t.current.val[ids[i]])]]

CheckPriceDrops ==
    \E pick \in Picks(product_cache, ids_looked_up) :
        LET r == check_price_drops(registry, product_cache, pick)
        IN  /\ product_cache' = r.cache
            /\ ret' = [op |-> "check_price_drops",
                       out |-> IF r.raised # "" THEN r.raised ELSE "drops",
                       drops |-> r.result] @@ NoCall
            /\ UNCHANGED <<registry, files, today, loadDay, clock, run, outbox, writers>>

----------------------------------------------------------------------------
(* Snapshots and detection, with two products registered *)

WIDGET_ID == hash_product_id("Widget", get_simplified_amazon_url(U_TRACKED))
GADGET_ID == hash_product_id("Gadget", get_simplified_amazon_url(U_GP))

\* the registry after register_new_product("Widget", U_TRACKED) and
\* register_new_product("Gadget", U_GP) on the empty registry file
TwoProducts ==
    LET empty == [header |-> Fieldnames, rows |-> <<>>]
        one == register_new_product(empty, {}, "Widget", U_TRACKED, "y").registry
    IN  register_new_product(one, {}, "Gadget", U_GP, "y").registry

InitDetect ==
    /\ registry = TwoProducts
    /\ product_cache = {}
    /\ files = <<>>
    /\ today = 1
    /\ loadDay = 1
    /\ clock = 0
    /\ ret = [op |-> "import"] @@ NoCall
    /\ run = NoRun
    /\ outbox = <<>>
    /\ writers = NoWriters

NextDetect ==
    \/ ExtractAndStore
    \/ CheckPriceDrops
    \/ ArchiveProduct
    \/ NextDay
    \/ NewProcess

SpecDetect == InitDetect /\ [][NextDetect]_vars

----------------------------------------------------------------------------
(* AmazonPriceExtractor.run and the steps it goes through *)

MaxRuns == 2        \* invocations of the Lambda handler

retries == 3        \* RetryOnException: attempts before the exception is raised

SCRAPER_API_KEY == "SCRAPER_API_KEY"
SECONDARY_SCRAPER_API_KEY == "SECONDARY_SCRAPER_API_KEY"
QuotaException == "InsuffcientScraperAPIQuotaException"

\* what get_amazon_price_with_soup does for one product: it returns a price, or
\* raises InsuffcientScraperAPIQuotaException (line 111), or raises another
\* exception (requests.get fails, or select_one finds no price element)
FetchOutcomes == Prices \cup {"Exception", QuotaException}

Steps == <<"Scraping", "Storing", "Detecting", "Rendering", "Notifying">>

\* the extraction beginning again with the credential it already has
_retry_with_the_same_scraper_api_key(r) ==
    [r EXCEPT !.pc = "Scraping", !.i = 1, !.trace = Append(@, "Scraping")]

\* _retry_with_secondary_scraper_api_key: line 148 reads
\* self.scraper_api_key_name, an attribute that __init__ (lines 21-30) never
\* sets: AttributeError, raised inside the except clause of line 136, leaves
\* extract_price_for_all_registered_products and run
_retry_with_secondary_scraper_api_key(r) ==
    [r EXCEPT !.pc = "Failed", !.error = "AttributeError"]

\* the step after the iteration for the product at index i
after_extract(r) ==
    IF r.i = Len(r.products)
    THEN [r EXCEPT !.i = @ + 1, !.pc = "Storing", !.trace = Append(@, "Storing")]
    ELSE [r EXCEPT !.i = @ + 1]

\* lines 121-142: the iteration of the loop for the product at index r.i, with
\* one call of get_amazon_price_with_soup (one request, line 82)
extract_price(r, fetched) ==
    LET tried == [r EXCEPT !.attempts[r.i] = @ + 1]
    IN  IF fetched = QuotaException
        THEN _retry_with_secondary_scraper_api_key([tried EXCEPT !.quota = TRUE])
        ELSE IF fetched = "Exception"
        THEN after_extract([tried EXCEPT !.failed = @ \cup {r.i}])
        ELSE after_extract([tried EXCEPT !.products[r.i].price = fetched])

\* lambda_handler: AmazonPriceExtractor() is constructed (S3DataHandler.__init__
\* runs again on the singleton and empties the cache, line 56) and run begins:
\* line 116 lists the registered products
Run ==
    /\ run.pc \in {"Idle", "Done", "Failed"}
    /\ run.n < MaxRuns
    /\ LET l == list_registered_products(registry, {})
       IN  /\ product_cache' = l.cache
           /\ run' = [NoRun EXCEPT
                        !.products = l.result,
                        !.i = 1,
                        !.attempts = [j \in DOMAIN l.result |-> 0],
                        !.pc = IF l.result = <<>> THEN "Storing" ELSE "Scraping",
                        !.trace = IF l.result = <<>> THEN <<"Scraping", "Storing">>
                                  ELSE <<"Scraping">>,
                        !.n = run.n + 1]
    /\ UNCHANGED <<registry, files, today, loadDay, clock, ret, outbox, writers>>

ExtractPrice ==
    /\ run.pc = "Scraping"
    /\ \E fetched \in FetchOutcomes : run' = extract_price(run, fetched)
    /\ UNCHANGED <<registry, product_cache, files, today, loadDay, clock, ret, outbox, writers>>

\* run swallowing a failure of the upload
after_store_prices_ignoring_failure(r, uploaded) ==
    [r EXCEPT !.pc = "Detecting", !.trace = Append(@, "Detecting"),
              !.error = IF uploaded THEN "" ELSE "UploadError"]

\* line 183: an exception of upload_file (line 131) leaves run
after_store_prices(r, uploaded) ==
    IF uploaded
    THEN [r EXCEPT !.pc = "Detecting", !.trace = Append(@, "Detecting")]
    ELSE [r EXCEPT !.pc = "Failed", !.error = "UploadError"]

\* store_product_prices: the snapshot of the products of this run is uploaded
\* under S3_PRICE_HISTORY_FILE_KEY, or the upload fails
StoreProductPrices ==
    /\ run.pc = "Storing"
    /\ \E uploaded \in BOOLEAN :
          /\ run' = after_store_prices(run, uploaded)
          /\ IF uploaded
             THEN /\ files' = (S3_PRICE_HISTORY_FILE_KEY :>
                                  [LastModified |-> clock + 1,
                                   rows |-> store_prices(run.products, today)]) @@ files
                  /\ clock' = clock + 1
             ELSE UNCHANGED <<files, clock>>
    /\ UNCHANGED <<registry, product_cache, today, loadDay, ret, outbox, writers>>

\* check_and_process_price_drops going on to plot and send whatever was detected
after_check_price_drops_always_sending(r, raised, price_drops) ==
    IF raised # ""
    THEN [r EXCEPT !.pc = "Failed", !.error = raised]
    ELSE [r EXCEPT !.pc = "Rendering", !.trace = Append(@, "Rendering"),
                   !.price_drops = price_drops]

\* lines 166-170: an exception of check_price_drops leaves the run; without
\* price drops "No price drops detected." is printed and the method returns
after_check_price_drops(r, raised, price_drops) ==
    IF raised # ""
    THEN [r EXCEPT !.pc = "Failed", !.error = raised]
    ELSE IF price_drops = <<>>
    THEN [r EXCEPT !.pc = "Done"]
    ELSE [r EXCEPT !.pc = "Rendering", !.trace = Append(@, "Rendering"),
                   !.price_drops = price_drops]

\* line 166 of check_and_process_price_drops
RunCheckPriceDrops ==
    /\ run.pc = "Detecting"
    /\ \E pick \in Picks(product_cache, ids_looked_up) :
          LET r == check_price_drops(registry, product_cache, pick)
          IN  /\ product_cache' = r.cache
              /\ run' = after_check_price_drops(run, r.raised, r.result)
    /\ UNCHANGED <<registry, files, today, loadDay, clock, ret, outbox, writers>>

\* _plot_price_graphs, line 305: the file that holds the chart of a product
image_path(product_id) == "/tmp/" \o product_id \o "_price_trend.png"

\* os.path.basename of the path of a chart
basename(path) ==
    LET names == {id \o "_price_trend.png" : id \in {WIDGET_ID, GADGET_ID}}
    IN  IF \E n \in names : path = "/tmp/" \o n
        THEN CHOOSE n \in names : path = "/tmp/" \o n
        ELSE path

\* plot_price_graphs, lines 210-215: graphs maps the ids that have a history to
\* the path of their chart; graphs.get(id) is None for the others
plot_price_graphs(price_drops, with_history) ==
    [i \in DOMAIN price_drops |->
        [price_drops[i] EXCEPT !.price_chart_path =
            IF price_drops[i].product_id \in with_history
            THEN image_path(price_drops[i].product_id) ELSE None]]

\* line 170: the history is queried and the charts are drawn (the products
\* that _plot_price_graphs looks up are those of price_drops, which
\* check_price_drops has left in the cache), or the query or the drawing raises
PlotPriceGraphs ==
    /\ run.pc = "Rendering"
    /\ \/ \E with_history \in
             SUBSET {run.price_drops[i].product_id : i \in DOMAIN run.price_drops} :
             run' = [run EXCEPT
                       !.price_drops = plot_price_graphs(run.price_drops, with_history),
                       !.pc = "Notifying", !.trace = Append(@, "Notifying")]
       \/ run' = [run EXCEPT !.pc = "Failed", !.error = "Exception"]
    /\ UNCHANGED <<registry, product_cache, files, today, loadDay, clock, ret, outbox, writers>>

EMAIL == "EMAIL"    \* os.getenv("EMAIL")

\* a message that lists the first drop only
create_email_with_first_price_drop(sender, recipient, subject, price_drops) ==
    LET first == SubSeq(price_drops, 1, 1)
        with_chart == SelectSeq(first, LAMBDA drop : ~Falsy(drop.price_chart_path))
    IN  [to |-> recipient, from |-> sender, subject |-> subject,
         items |-> [i \in DOMAIN first |->
                      [href |-> first[i].url, text |-> first[i].product_name,
                       previous_price |-> first[i].previous_price,
                       current_price |-> first[i].current_price,
                       img |-> IF ~Falsy(first[i].price_chart_path)
                               THEN "cid:" \o basename(first[i].price_chart_path)
                               ELSE None]],
         images |-> [i \in DOMAIN with_chart |->
                       basename(with_chart[i].price_chart_path)]]

\* create_email_with_price_drops: one list item for each drop, in order, with
\* an img tag when the drop has a chart, and the charts attached with the
\* basename of their path as Content-ID
create_email_with_price_drops(sender, recipient, subject, price_drops) ==
    LET with_chart == SelectSeq(price_drops, LAMBDA drop : ~Falsy(drop.price_chart_path))
    IN  [to |-> recipient, from |-> sender, subject |-> subject,
         items |-> [i \in DOMAIN price_drops |->
                      [href |-> price_drops[i].url, text |-> price_drops[i].product_name,
                       previous_price |-> price_drops[i].previous_price,
                       current_price |-> price_drops[i].current_price,
                       img |-> IF ~Falsy(price_drops[i].price_chart_path)
                               THEN "cid:" \o basename(price_drops[i].price_chart_path)
                               ELSE None]],
         images |-> [i \in DOMAIN with_chart |->
                       basename(with_chart[i].price_chart_path)]]

\* send_email (lines 172-178): the message is built and handed to the
\* transport, or authenticate_gmail or the transport raises
SendEmail ==
    /\ run.pc = "Notifying"
    /\ \/ /\ outbox' = Append(outbox,
                 create_email_with_price_drops(EMAIL, EMAIL, "Price Drop Alert!",
                                               run.price_drops))
          /\ run' = [run EXCEPT !.pc = "Done", !.sent = @ + 1]
       \/ /\ run' = [run EXCEPT !.pc = "Failed", !.error = "SendError"]
          /\ outbox' = outbox
    /\ UNCHANGED <<registry, product_cache, files, today, loadDay, clock, ret, writers>>

\* a call of check_and_process_price_drops by itself
CheckAndProcessPriceDrops ==
    /\ run.pc = "Idle"
    /\ run' = [NoRun EXCEPT !.pc = "Detecting", !.trace = <<"Detecting">>, !.n = 1]
    /\ UNCHANGED <<registry, product_cache, files, today, loadDay, clock, ret, outbox, writers>>

----------------------------------------------------------------------------
(* Daily runs of the Lambda handler, with two products registered *)

InitRun ==
    /\ registry = TwoProducts
    /\ product_cache = {}
    /\ files = <<>>
    /\ today = 1
    /\ loadDay = 1
    /\ clock = 0
    /\ ret = [op |-> "import"] @@ NoCall
    /\ run = NoRun
    /\ outbox = <<>>
    /\ writers = NoWriters

NextRun ==
    \/ Run
    \/ ExtractPrice
    \/ StoreProductPrices
    \/ RunCheckPriceDrops
    \/ PlotPriceGraphs
    \/ SendEmail
    \/ NextDay
    \/ NewProcess

SpecRun == InitRun /\ [][NextRun]_vars

----------------------------------------------------------------------------
(* The snapshot directory as the bucket may hold it *)

MaxFiles == 3       \* snapshot files in the bucket

SnapshotKey(day) == S3_PRICE_HISTORY_DIRECTORY \o "/" \o strftime(day) \o ".csv"

\* the snapshot that store_prices writes on `day` when Widget was fetched at
\* `price` (None: the fetch failed) and Gadget was not
SnapshotRows(day, price) ==
    LET l == list_registered_products(TwoProducts, {}).result
    IN  store_prices([i \in DOMAIN l |->
                        [l[i] EXCEPT !.price = IF l[i].product_id = WIDGET_ID
                                               THEN price ELSE None]], day)

\* the buckets: snapshot files of some days, modified in any order, with or
\* without a "directory" key
Buckets ==
    {[key \in {SnapshotKey(day) : day \in days}
              \cup (IF directory THEN {S3_PRICE_HISTORY_DIRECTORY \o "/"} ELSE {}) |->
         IF IsDirectoryKey(key) THEN [LastModified |-> 0, rows |-> <<>>]
         ELSE LET day == CHOOSE d \in days : SnapshotKey(d) = key
              IN  [LastModified |-> modified[day], rows |-> SnapshotRows(day, price[day])]] :
     <<days, directory, modified, price>> \in
        {<<ds, dir, m, pr>> \in
            UNION {{ds} \X BOOLEAN \X [ds -> 1..Cardinality(ds)] \X [ds -> Prices \cup {None}] :
                ds \in SUBSET (1..MaxFiles)} :
            \A d, e \in ds : d # e => m[d] # m[e]}}

InitSnapshots ==
    /\ registry = TwoProducts
    /\ product_cache = {}
    /\ files \in Buckets
    /\ today = 1
    /\ loadDay = 1
    /\ clock = 0
    /\ ret = [op |-> "import"] @@ NoCall
    /\ run = NoRun
    /\ outbox = <<>>
    /\ writers = NoWriters

NextSnapshots ==
    \/ GetTwoMostRecentPrices
    \/ CheckPriceDrops
    \/ CheckAndProcessPriceDrops
    \/ RunCheckPriceDrops
    \/ PlotPriceGraphs
    \/ SendEmail

SpecSnapshots == InitSnapshots /\ [][NextSnapshots]_vars

----------------------------------------------------------------------------
(* Properties of check_price_drops *)

\* the two most recently modified snapshot objects, when there are two
NewerKey ==
    CHOOSE k \in DOMAIN files :
        \A j \in DOMAIN files : files[j].LastModified <= files[k].LastModified
OlderKey ==
    CHOOSE k \in DOMAIN files \ {NewerKey} :
        \A j \in DOMAIN files \ {NewerKey} : files[j].LastModified <= files[k].LastModified

IdsIn(key) == {files[key].rows[i].product_id : i \in DOMAIN files[key].rows}
PricesIn(key, id) ==
    {files[key].rows[i].price :
        i \in {j \in DOMAIN files[key].rows : files[key].rows[j].product_id = id}}

\* the number that a price string denotes, in hundredths
Hundredths(price) == IF price = "9.99" THEN 999 ELSE IF price = "10.00" THEN 1000 ELSE -1
AllPricesParse ==
    \A k \in DOMAIN files : \A i \in DOMAIN files[k].rows :
        Hundredths(files[k].rows[i].price) >= 0

\* the ids of the older snapshot whose price in the newer one is lower
Lower ==
    {id \in IdsIn(OlderKey) \cap IdsIn(NewerKey) :
        \E o \in PricesIn(OlderKey, id), n \in PricesIn(NewerKey, id) :
            Hundredths(n) < Hundredths(o)}

Checked == ret.op = "check_price_drops" /\ Cardinality(DOMAIN files) >= 2

DropIds == {ret.drops[i].product_id : i \in DOMAIN ret.drops}

\* C1: when all prices parse and the products with a lower price are active,
\* check_price_drops returns exactly one PriceDrop for each id of the older
\* snapshot whose newer price is strictly lower, none for any other id (an
\* equal or a higher price yields none), each with the older price as
\* previous_price and the newer price as current_price.
C1_DropsAreTheLowerPrices ==
    (Checked /\ AllPricesParse /\ Lower \subseteq ActiveIds) =>
        /\ ret.out = "drops"
        /\ DropIds = Lower
        /\ Len(ret.drops) = Cardinality(Lower)
        /\ \A i \in DOMAIN ret.drops :
              /\ PricesIn(OlderKey, ret.drops[i].product_id) = {ret.drops[i].previous_price}
              /\ PricesIn(NewerKey, ret.drops[i].product_id) = {ret.drops[i].current_price}

C1_Witness ==
    /\ Checked
    /\ ret.out = "drops"
    /\ IdsIn(OlderKey) = {WIDGET_ID, GADGET_ID}
    /\ IdsIn(NewerKey) = {WIDGET_ID, GADGET_ID}
    /\ PricesIn(OlderKey, GADGET_ID) = PricesIn(NewerKey, GADGET_ID)
    /\ Len(ret.drops) = 1
    /\ ret.drops[1].product_id = WIDGET_ID
    /\ ret.drops[1].previous_price = "10.00"
    /\ ret.drops[1].current_price = "9.99"

\* C2: a product id of the older snapshot that is missing from the newer one
\* is never reported as a drop, whatever its older price is: its current price
\* counts as infinite, and the call goes on to return the drops of the other
\* products (when these are active).
C2_MissingInNewerIsNoDrop ==
    Checked =>
        /\ DropIds \cap (IdsIn(OlderKey) \ IdsIn(NewerKey)) = {}
        /\ (AllPricesParse /\ Lower \subseteq ActiveIds) => ret.out = "drops"

C2_Witness ==
    /\ Checked
    /\ ret.out = "drops"
    /\ WIDGET_ID \in IdsIn(OlderKey) \ IdsIn(NewerKey)
    /\ PricesIn(OlderKey, WIDGET_ID) = {"10.00"}
    /\ WIDGET_ID \in ActiveIds
    /\ DropIds = {GADGET_ID}

\* C10: when check_price_drops runs after archive(id) and the two most recent
\* snapshots hold a strictly lower newer price for id, it completes without
\* error and returns the drops of the active products, with no entry for id.
C10_ArchivedExcludedFromDiff ==
    (Checked /\ AllPricesParse /\ Lower \cap ArchivedIds # {}) =>
        /\ ret.out = "drops"
        /\ DropIds = Lower \cap ActiveIds

----------------------------------------------------------------------------
(* Properties of the snapshot store *)

\* the snapshot file that has exactly n files modified more recently than it
NthMostRecent(n) ==
    CHOOSE key \in files_only :
        Cardinality({k \in files_only :
                        files[k].LastModified > files[key].LastModified}) = n

\* dict d holds exactly the prices of the rows of the file under key
HoldsPricesOf(d, key) ==
    /\ DOMAIN d.val = IdsIn(key)
    /\ \A id \in IdsIn(key) : PricesIn(key, id) = {d.val[id]}

\* C11: with two snapshot files or more, get_two_most_recent_prices returns
\* (previous, current) where current holds the prices of the file with the
\* greatest LastModified and previous those of the file with the second
\* greatest one, whatever the dates in their keys are.
C11_TwoMostRecentlyModified ==
    (ret.op = "get_two_most_recent_prices" /\ Cardinality(files_only) >= 2) =>
        /\ ret.out = "tuple"
        /\ HoldsPricesOf(ret.dict[1], NthMostRecent(1))
        /\ HoldsPricesOf(ret.dict[2], NthMostRecent(0))

C11_Witness ==
    /\ ret.op = "get_two_most_recent_prices"
    /\ ret.out = "tuple"
    /\ files_only = {SnapshotKey(1), SnapshotKey(2), SnapshotKey(3)}
    /\ NthMostRecent(0) = SnapshotKey(1)
    /\ NthMostRecent(1) = SnapshotKey(3)
    /\ ret.dict[1].val = (WIDGET_ID :> "10.00")
    /\ ret.dict[2].val = (WIDGET_ID :> "9.99")
    /\ PricesIn(SnapshotKey(2), WIDGET_ID) = {}

\* C12: with fewer than two snapshot files (no key at all, "directory" keys
\* only, or one file) get_two_most_recent_prices returns the empty list or
\* raises ValueError, check_price_drops raises ValueError and returns no drop,
\* and check_and_process_price_drops ends with that error without a message.
C12_FewerThanTwoSnapshots ==
    Cardinality(files_only) < 2 =>
        /\ ret.op = "get_two_most_recent_prices" =>
              ret.out = (IF DOMAIN files = {} THEN "[]" ELSE "ValueError")
        /\ ret.op = "check_price_drops" => ret.out = "ValueError" /\ ret.drops = <<>>
        /\ run.pc \notin {"Idle", "Detecting"} =>
              /\ run.pc = "Failed"
              /\ run.error = "ValueError"
              /\ run.price_drops = <<>>
        /\ run.sent = 0
        /\ outbox = <<>>

C12_Witness ==
    /\ \E key \in DOMAIN files : IsDirectoryKey(key)
    /\ Cardinality(files_only) = 1
    /\ ret.op = "check_price_drops"
    /\ ret.out = "ValueError"
    /\ run.pc = "Failed"

----------------------------------------------------------------------------
(* Properties of a run *)

\* the indices of the products of the run whose price was fetched
Fetched == {i \in DOMAIN run.products : ~Falsy(run.products[i].price)}

\* in this step the fetch of a product fails with an exception other than
\* quota exhaustion
FetchFails == run.pc = "Scraping" /\ run'.failed # run.failed

\* in this step the snapshot of the run is written
SnapshotWritten == run.pc = "Storing" /\ run'.pc = "Detecting"

\* C13: when the fetch of a product fails with an error other than quota
\* exhaustion, the run goes on with the next product (or with the storing, after
\* the last one) and keeps the prices fetched so far; the snapshot that the run
\* writes holds one row for each product whose price was fetched, with that
\* price, and no row for a product whose fetch failed; the run then detects.
C13_PartialFailureTolerance ==
    /\ [][FetchFails =>
            /\ run'.error = ""
            /\ run'.i = run.i + 1
            /\ run'.pc = (IF run.i = Len(run.products) THEN "Storing" ELSE "Scraping")
            /\ run'.failed = run.failed \cup {run.i}
            /\ run'.products = run.products]_vars
    /\ [][SnapshotWritten =>
            LET key == S3_PRICE_HISTORY_FILE_KEY
                rows == files'[key].rows
            IN  /\ Fetched = DOMAIN run.products \ run.failed
                /\ Len(rows) = Cardinality(Fetched)
                /\ {rows[j].product_id : j \in DOMAIN rows}
                      = {run.products[i].product_id : i \in Fetched}
                /\ \A j \in DOMAIN rows : \E i \in Fetched :
                      /\ rows[j].product_id = run.products[i].product_id
                      /\ rows[j].price = run.products[i].price
                /\ run'.products = run.products]_vars

C13_Witness ==
    /\ run.pc = "Done"
    /\ run.failed = {1}
    /\ Fetched = {2}
    /\ run.trace = Steps
    /\ run.sent = 1
    /\ IdsIn(S3_PRICE_HISTORY_FILE_KEY) = {GADGET_ID}
    /\ Len(outbox) = 1

\* sequence t is the beginning of sequence s
IsPrefix(t, s) == Len(t) <= Len(s) /\ t = SubSeq(s, 1, Len(t))

\* the steps are entered in the order of Steps, each at most once, one after
\* the other; an error is what ends a run as Failed, and a run that has ended
\* stays as it is until the next run begins
StepsInOrder ==
    /\ [](/\ IsPrefix(run.trace, Steps)
          /\ run.pc \in Range(Steps) => run.pc = run.trace[Len(run.trace)]
          /\ run.error # "" <=> run.pc = "Failed")
    /\ [][run.pc \in {"Done", "Failed"} => run'.n = run.n + 1 \/ run' = run]_vars

\* C14 as stated: every run that does not fail passes through Scraping,
\* Storing, Detecting, Rendering and Notifying, in this order, and then is Done.
C14_AllStepsThenDone ==
    run.pc = "Done" => run.trace = Steps

\* C14 amended: the steps of a run are entered in the order Scraping, Storing,
\* Detecting, Rendering, Notifying, each at most once and one after the other;
\* a run that ends as Done has passed through all five when drops were
\* detected, and through Scraping, Storing and Detecting only when none was;
\* a failure in a step ends the run as Failed, for good.
C14_StepsThenDoneSkippingWithoutDrops ==
    /\ StepsInOrder
    /\ [](run.pc = "Done" =>
            run.trace = (IF run.price_drops = <<>> THEN SubSeq(Steps, 1, 3) ELSE Steps))

C14_Witness ==
    /\ run.pc = "Done"
    /\ run.price_drops = <<>>
    /\ run.trace = <<"Scraping", "Storing", "Detecting">>
    /\ Cardinality(files_only) = 2
    /\ Fetched = DOMAIN run.products
    /\ outbox = <<>>

\* in this step a fetch signals quota exhaustion
QuotaSignalled == run.pc = "Scraping" /\ ~run.quota /\ run'.quota

\* C15: when a fetch under the primary credential signals quota exhaustion,
\* the extractor switches to the secondary credential and restarts the whole
\* extraction, without an error.
C15_QuotaSwitchesToSecondaryKey ==
    [][QuotaSignalled =>
          /\ run'.scraper_api_key_name = SECONDARY_SCRAPER_API_KEY
          /\ run'.pc = "Scraping"
          /\ run'.i = 1
          /\ run'.error = ""]_vars

\* C16: a product is given up as failed only after its fetch was retried: more
\* than one request, and at most `retries` of them, were made for it.
C16_FailureAfterBoundedRetries ==
    \A i \in run.failed : run.attempts[i] > 1 /\ run.attempts[i] <= retries

\* C17: a failure of the upload of the snapshot ends the run as Failed with
\* that error, before any detection and without a message; a failure of the
\* sending ends the run as Failed with that error, not as Done; and a run that
\* has failed does nothing more.
C17_StorageOrNotificationFailureAborts ==
    /\ [](/\ run.error = "UploadError" =>
                /\ run.pc = "Failed"
                /\ "Detecting" \notin Range(run.trace)
                /\ run.price_drops = <<>>
                /\ run.sent = 0
          /\ run.error = "SendError" => run.pc = "Failed" /\ run.sent = 0)
    /\ [][(run.pc = "Storing" /\ run' # run /\ files' = files) =>
              run'.pc = "Failed" /\ run'.error = "UploadError"]_vars
    /\ [][(run.pc = "Notifying" /\ run' # run /\ outbox' = outbox) =>
              run'.pc = "Failed" /\ run'.error = "SendError"]_vars
    /\ [][run.pc = "Failed" =>
              \/ run' = run /\ outbox' = outbox /\ files' = files
              \/ run'.n = run.n + 1]_vars

C17_Witness ==
    /\ run.pc = "Failed"
    /\ run.error = "UploadError"
    /\ Fetched = DOMAIN run.products
    /\ \A i \in Fetched : run.products[i].price = "9.99"
    /\ Cardinality(files_only) = 1
    /\ \A key \in files_only : PricesIn(key, WIDGET_ID) = {"10.00"}
    /\ outbox = <<>>

\* the drops of the run that have a chart
Charted == {i \in DOMAIN run.price_drops : ~Falsy(run.price_drops[i].price_chart_path)}

\* C20: a run sends at most one message, and none when no drop was detected; a
\* run that detected k >= 1 drops and ends as Done has sent exactly one, which
\* lists each of the k drops exactly once, with its name, link, previous price
\* and current price, and embeds one chart for each drop that has a chart.
C20_OneDigestForTheDrops ==
    /\ run.sent <= 1
    /\ Len(outbox) <= run.n
    /\ run.price_drops = <<>> => run.sent = 0
    /\ (run.pc = "Done" /\ run.price_drops # <<>>) =>
          /\ run.sent = 1
          /\ LET message == outbox[Len(outbox)]
                 drops == run.price_drops
             IN  /\ Len(message.items) = Len(drops)
                 /\ \A i, j \in DOMAIN drops :
                       i # j => drops[i].product_id # drops[j].product_id
                 /\ \A i \in DOMAIN drops :
                       /\ message.items[i].text = drops[i].product_name
                       /\ message.items[i].href = drops[i].url
                       /\ message.items[i].previous_price = drops[i].previous_price
                       /\ message.items[i].current_price = drops[i].current_price
                       /\ i \in Charted <=> message.items[i].img # None
                       /\ i \in Charted =>
                             /\ message.items[i].img
                                   = "cid:" \o drops[i].product_id \o "_price_trend.png"
                             /\ Cardinality({j \in DOMAIN message.images :
                                   "cid:" \o message.images[j] = message.items[i].img}) = 1
                 /\ Len(message.images) = Cardinality(Charted)

C20_Witness ==
    /\ run.pc = "Done"
    /\ Len(run.price_drops) = 2
    /\ Cardinality(Charted) = 1
    /\ run.sent = 1
    /\ Len(outbox[Len(outbox)].items) = 2
    /\ Len(outbox[Len(outbox)].images) = 1

----------------------------------------------------------------------------
(* Properties of the snapshot write and of the product ids *)

\* C18: a snapshot write leaves one snapshot set under the key of the calendar
\* day of the write, holding the prices of that write, and modifies the
\* snapshot set of no other day.
C18_WriteTouchesOnlyTodaysSnapshot ==
    [][(ret'.op = "store_prices" /\ clock' = clock + 1) =>
          LET key == SnapshotKey(today)
          IN  /\ DOMAIN files' = DOMAIN files \cup {key}
              /\ files'[key].rows = store_prices(ret'.products, today)
              /\ \A other \in DOMAIN files \ {key} : files'[other] = files[other]]_vars

\* C19: every record read back from the registry has as product_id the hash
\* of its own product_name and product_url, after any sequence of register and
\* archive operations on a registry file whose columns are product_id,
\* product_name, product_url, archived.
C19_IdIsHashOfOwnFields ==
    \A i \in DOMAIN Rows :
        Rows[i][PRODUCT_ID_HEADER]
            = hash_product_id(Rows[i][PRODUCT_NAME_HEADER], Rows[i][PRODUCT_URL_HEADER])

----------------------------------------------------------------------------
(* PriceDataProcessor._plot_price_graphs: the series that is drawn *)

MaxObservations == 3    \* rows of a price history
MaxSpan == 3            \* calendar days that a price history spans

NaN == -1               \* the missing value of a reindexed column (no price is negative)

\* the date column as Athena returns it: date_parse(date, '%Y-%m-%d')
date_parse(date) == date \o " 00:00:00.000"

\* pd.to_datetime on the date column: the day that the string denotes
to_datetime(date) == CHOOSE day \in DOMAIN Digit : date_parse(strftime(day)) = date

\* df.groupby("product_id"): the rows of a product, in the order of the data
group_of(data, product_id) == SelectSeq(data, LAMBDA row : row.product_id = product_id)

\* pd.date_range(start, end, freq="D")
date_range(start, end) == [k \in 1..(end - start + 1) |-> start + (k - 1)]

\* set_index("date").reindex(full_date_range): for each day of the range the
\* price (as a float) of the row of that day, NaN when the group has none
reindex(group, full_date_range) ==
    [k \in DOMAIN full_date_range |->
        IF \E i \in DOMAIN group : to_datetime(group[i].date) = full_date_range[k]
        THEN float(group[CHOOSE i \in DOMAIN group :
                       to_datetime(group[i].date) = full_date_range[k]].price)
        ELSE NaN]

RECURSIVE bfill(_)
\* a missing value replaced by the next value that is not missing
bfill(column) ==
    IF column = <<>> THEN <<>>
    ELSE LET rest == bfill(Tail(column))
         IN  <<IF Head(column) = NaN /\ rest # <<>> THEN rest[1] ELSE Head(column)>> \o rest

RECURSIVE ffill(_)
\* DataFrame.ffill: a missing value replaced by the last value before it that
\* is not missing
ffill(column) ==
    IF column = <<>> THEN <<>>
    ELSE LET front == ffill(SubSeq(column, 1, Len(column) - 1))
             last == column[Len(column)]
         IN  Append(front, IF last = NaN /\ front # <<>> THEN front[Len(front)] ELSE last)

\* lines 270-284 for the group of one product: the points (date, price) that
\* ax.plot draws
plotted(group) ==
    LET dates == {to_datetime(group[i].date) : i \in DOMAIN group}
        min == CHOOSE d \in dates : \A e \in dates : d <= e
        max == CHOOSE d \in dates : \A e \in dates : e <= d
        full_date_range == date_range(min, max)
        price == ffill(reindex(group, full_date_range))
    IN  [k \in DOMAIN full_date_range |-> [date |-> full_date_range[k], price |-> price[k]]]

\* reindex raises ValueError ("cannot reindex on an axis with duplicate
\* labels") when two rows of the group have the same date
duplicate_labels(group) ==
    \E i, j \in DOMAIN group : i # j /\ group[i].date = group[j].date

RECURSIVE plot_groups(_, _, _, _, _)
\* the loop of line 265 over the groups, in the order of their keys: reindex
\* raises ValueError for a group with duplicate dates, get_product_by_id (line
\* 287, for the title) raises KeyError without an active product of that id
plot_groups(reg, cache, data, order, pick) ==
    IF order = <<>> THEN [cache |-> cache, raised |-> "", series |-> <<>>]
    ELSE LET product_id == Head(order)
             group == group_of(data, product_id)
             product == get_product_by_id(reg, cache, product_id, pick)
             rest == plot_groups(reg, product.cache, data, Tail(order), pick)
         IN  IF duplicate_labels(group)
             THEN [cache |-> cache, raised |-> "ValueError", series |-> <<>>]
             ELSE IF product.raised # ""
             THEN [cache |-> product.cache, raised |-> product.raised, series |-> <<>>]
             ELSE IF rest.raised # "" THEN rest
             ELSE [rest EXCEPT !.series = (product_id :> plotted(group)) @@ @]

\* _plot_price_graphs: KeyError when the data has no row (the frame has no
\* column "date", line 257), ValueError when astype(float) raises (line 258),
\* else one chart for each product of the data unless the loop raises
_plot_price_graphs(reg, cache, data, order, pick) ==
    IF data = <<>>
    THEN [cache |-> cache, raised |-> "KeyError", series |-> <<>>]
    ELSE IF \E i \in DOMAIN data : ~can_float(data[i].price)
    THEN [cache |-> cache, raised |-> "ValueError", series |-> <<>>]
    ELSE plot_groups(reg, cache, data, order, pick)

\* the history that query_historical_prices returned for the charts
HistoryIn(call) == call.op = "query_historical_prices"

\* the orders in which the keys of the groups may sort
Orders(ids) == {order \in [1..Cardinality(ids) -> ids] : Range(order) = ids}

PlotHistory ==
    /\ HistoryIn(ret)
    /\ LET ids == {ret.products[i].product_id : i \in DOMAIN ret.products}
       IN  \E order \in Orders(ids), pick \in Picks(product_cache, ids) :
              LET r == _plot_price_graphs(registry, product_cache, ret.products, order, pick)
              IN  /\ product_cache' = r.cache
                  /\ ret' = [op |-> "_plot_price_graphs", products |-> ret.products,
                             out |-> IF r.raised # "" THEN r.raised ELSE "graphs",
                             dict |-> r.series] @@ NoCall
    /\ UNCHANGED <<registry, files, today, loadDay, clock, run, outbox, writers>>

\* the histories: rows of the two products on the days of the span, as the
\* snapshots of these days may hold them, in the order of the query (ORDER BY
\* date DESC, line 151)
Histories ==
    {data \in UNION {[1..n -> [product_id : {WIDGET_ID, GADGET_ID},
                               date : {date_parse(strftime(day)) : day \in 1..MaxSpan},
                               price : Prices]] : n \in 0..MaxObservations} :
        \A i, j \in DOMAIN data :
            i < j => to_datetime(data[i].date) >= to_datetime(data[j].date)}

\* the two products registered, Widget active or archived
InitChart ==
    /\ registry \in {TwoProducts, archive_product(TwoProducts, {}, WIDGET_ID, 1).registry}
    /\ product_cache = {}
    /\ files = <<>>
    /\ today = 1
    /\ loadDay = 1
    /\ clock = 0
    /\ ret \in {[op |-> "query_historical_prices", products |-> data] @@ NoCall :
                   data \in Histories}
    /\ run = NoRun
    /\ outbox = <<>>
    /\ writers = NoWriters

NextChart == PlotHistory

SpecChart == InitChart /\ [][NextChart]_vars

----------------------------------------------------------------------------
(* Properties of the chart *)

\* the days on which the history of the last call has an observation of id
ObservedDays(id) ==
    {day \in 1..Len(Digit) : \E i \in DOMAIN ret.products :
        /\ ret.products[i].product_id = id
        /\ ret.products[i].date = date_parse(strftime(day))}

\* the prices observed for id on a day, in hundredths
ObservedOn(id, day) ==
    {Hundredths(ret.products[i].price) :
        i \in {j \in DOMAIN ret.products :
                  /\ ret.products[j].product_id = id
                  /\ ret.products[j].date = date_parse(strftime(day))}}

\* the history holds at most one observation of a product for a day
OnePerDay ==
    \A i, j \in DOMAIN ret.products :
        (/\ i # j
         /\ ret.products[i].product_id = ret.products[j].product_id)
            => ret.products[i].date # ret.products[j].date

\* C21: for each product of a history, the series that is drawn has exactly one
\* point for each calendar day from the earliest to the latest observed day, in
\* ascending order of the days; the point of a day with an observation has the
\* price of that observation, the point of a day without one has the price of
\* the closest earlier observed day.  A chart is drawn for every product of a
\* non-empty history with at most one observation per product and day whose
\* products are active.
C21_ForwardFilledDailySeries ==
    /\ (ret.op = "_plot_price_graphs" /\ ret.out = "graphs") =>
          /\ DOMAIN ret.dict = {ret.products[i].product_id : i \in DOMAIN ret.products}
          /\ \A id \in DOMAIN ret.dict :
                LET series == ret.dict[id]
                    first == CHOOSE d \in ObservedDays(id) : \A e \in ObservedDays(id) : d <= e
                    last == CHOOSE d \in ObservedDays(id) : \A e \in ObservedDays(id) : e <= d
                IN  /\ Len(series) = last - first + 1
                    /\ \A k \in DOMAIN series :
                          LET earlier == {d \in ObservedDays(id) : d <= series[k].date}
                              closest == CHOOSE d \in earlier : \A e \in earlier : e <= d
                          IN  /\ series[k].date = first + (k - 1)
                              /\ ObservedOn(id, closest) = {series[k].price}
    /\ (/\ ret.op = "_plot_price_graphs"
        /\ ret.products # <<>>
        /\ OnePerDay
        /\ {ret.products[i].product_id : i \in DOMAIN ret.products} \subseteq ActiveIds)
          => ret.out = "graphs"

C21_Witness ==
    /\ ret.op = "_plot_price_graphs"
    /\ ret.out = "graphs"
    /\ ObservedDays(GADGET_ID) = {1, 3}
    /\ Len(ret.dict[GADGET_ID]) = 3
    /\ ret.dict[GADGET_ID][1].price = 1000
    /\ ret.dict[GADGET_ID][2].price = 1000
    /\ ret.dict[GADGET_ID][3].price = 999

----------------------------------------------------------------------------
(* RetryOnException: the wrapper around a function *)

MaxRetries == 3     \* the greatest value of the parameter retries

PriceNotFoundException == "PriceNotFoundException"

\* the exceptions that the wrapped function raises
Raisable == {PriceNotFoundException, "ValueError", "KeyboardInterrupt"}

\* isinstance(e, exception): PriceNotFoundException and ValueError derive from
\* Exception, KeyboardInterrupt derives from BaseException only
isinstance(e, exception) ==
    \/ e = exception
    \/ exception = "Exception" /\ e \in {PriceNotFoundException, "ValueError"}

\* what a call of the wrapped function does: it returns a value or raises
FuncOutcomes == Prices \cup Raisable

\* a call of wrapper in progress: the parameters of the decorator, the local
\* attempt, the calls of func with what each did, the sleeps with their
\* duration, both in `events` in the order in which they happened, and how the
\* call of wrapper ended
Wrapper(exception, n, delay) ==
    [op |-> "wrapper", exception |-> exception, retries |-> n, delay |-> delay,
     attempt |-> 0, pc |-> IF 0 < n THEN "while" ELSE "returned",
     calls |-> <<>>, slept |-> <<>>, events |-> <<>>,
     result |-> None, raised |-> 0] @@ NoCall

\* the iteration with a sleep after every failed attempt, the last included
iteration_sleeping_always(w, outcome) ==
    LET called == [w EXCEPT !.calls = Append(@, outcome), !.events = Append(@, "call")]
        attempt == w.attempt + 1
    IN  IF outcome \notin Raisable
        THEN [called EXCEPT !.pc = "returned", !.result = outcome]
        ELSE IF ~isinstance(outcome, w.exception)
        THEN [called EXCEPT !.pc = "raised", !.raised = Len(called.calls)]
        ELSE IF attempt < w.retries
        THEN [called EXCEPT !.attempt = attempt,
                            !.slept = Append(@, w.delay), !.events = Append(@, "sleep")]
        ELSE [called EXCEPT !.attempt = attempt, !.pc = "raised",
                            !.slept = Append(@, w.delay), !.events = Append(@, "sleep"),
                            !.raised = Len(called.calls)]

\* lines 19-30: one iteration of the loop.  func is called; its value is
\* returned; an exception that is an instance of self.exception counts an
\* attempt, and is followed by a sleep when attempts are left, else raised
\* again; another exception leaves wrapper.  `raised` is the number of the call
\* whose exception leaves wrapper.
iteration(w, outcome) ==
    LET called == [w EXCEPT !.calls = Append(@, outcome), !.events = Append(@, "call")]
        attempt == w.attempt + 1
    IN  IF outcome \notin Raisable
        THEN [called EXCEPT !.pc = "returned", !.result = outcome]
        ELSE IF ~isinstance(outcome, w.exception)
        THEN [called EXCEPT !.pc = "raised", !.raised = Len(called.calls)]
        ELSE IF attempt < w.retries
        THEN [called EXCEPT !.attempt = attempt,
                            !.slept = Append(@, w.delay), !.events = Append(@, "sleep")]
        ELSE [called EXCEPT !.attempt = attempt, !.pc = "raised",
                            !.raised = Len(called.calls)]

\* a function decorated with RetryOnException(exception, retries, delay) is called
Wrap ==
    /\ ret.op = "wrapper" => ret.pc \in {"returned", "raised"}
    /\ \E exception \in {"Exception", PriceNotFoundException},
          n \in 0..MaxRetries, delay \in {1, 2} :
          ret' = Wrapper(exception, n, delay)
    /\ UNCHANGED <<registry, product_cache, files, today, loadDay, clock, run, outbox, writers>>

Iteration ==
    /\ ret.op = "wrapper"
    /\ ret.pc = "while"
    /\ \E outcome \in FuncOutcomes : ret' = iteration(ret, outcome)
    /\ UNCHANGED <<registry, product_cache, files, today, loadDay, clock, run, outbox, writers>>

NextRetry ==
    \/ Wrap
    \/ Iteration

SpecRetry == Init /\ [][NextRetry]_vars

----------------------------------------------------------------------------
(* Properties of RetryOnException *)

\* the calls of func that raised an instance of the exception to retry on
Retried(w) == {k \in DOMAIN w.calls : w.calls[k] \in Raisable /\ isinstance(w.calls[k], w.exception)}

\* C22: a function wrapped by RetryOnException(exception, retries = n, delay)
\* with n >= 1 is called at most n times; wrapper returns the value of the first
\* call that does not raise an instance of `exception`; when n calls raised one,
\* the exception of the n-th call is raised again; wrapper sleeps `delay` between
\* two consecutive calls and not after the last one; an exception that is not an
\* instance of `exception` leaves wrapper at once, without a further call.
C22_BoundedRetryWithFixedDelay ==
    (ret.op = "wrapper" /\ ret.retries >= 1) =>
        LET calls == Len(ret.calls)
        IN  /\ calls <= ret.retries
            /\ 1..(calls - 1) \subseteq Retried(ret)
            /\ ret.attempt = Cardinality(Retried(ret))
            /\ ret.pc = "while" => Retried(ret) = 1..calls /\ calls < ret.retries
            /\ ret.pc = "returned" =>
                  /\ calls >= 1
                  /\ ret.calls[calls] \notin Raisable
                  /\ ret.result = ret.calls[calls]
            /\ ret.pc = "raised" =>
                  /\ ret.raised = calls
                  /\ ret.calls[calls] \in Raisable
                  /\ isinstance(ret.calls[calls], ret.exception) => calls = ret.retries
            /\ (Retried(ret) = 1..ret.retries) => ret.pc = "raised"
            /\ ret.slept = [k \in 1..(IF ret.pc = "while" THEN calls ELSE calls - 1) |->
                               ret.delay]
            /\ \A k \in DOMAIN ret.events :
                  ret.events[k] = (IF k % 2 = 1 THEN "call" ELSE "sleep")
            /\ ret.pc # "while" => ret.events[Len(ret.events)] = "call"

C22_Witness ==
    /\ ret.op = "wrapper"
    /\ ret.exception = PriceNotFoundException
    /\ ret.retries = 3
    /\ ret.pc = "raised"
    /\ ret.calls = <<PriceNotFoundException, PriceNotFoundException, PriceNotFoundException>>
    /\ ret.raised = 3
    /\ ret.slept = <<ret.delay, ret.delay>>

----------------------------------------------------------------------------
(* Two processes writing the registry *)

MaxWrites == 2      \* operations of each writer

Other(w) == 3 - w

\* a writer is between its download and its upload
Pending(w) == writers[w].pc = "upload"

\* register_new_product up to the upload: the registry is downloaded into the
\* writer's own /tmp (line 214), checked for the name and the url, and the row
\* is appended to the copy (lines 219-250); a duplicate ends the call
BeginRegister(w) ==
    /\ writers[w].pc = "idle"
    /\ writers[w].n < MaxWrites
    /\ \E product_name \in Names, url \in Urls :
          LET r == register_new_product(registry, writers[w].product_cache,
                                        product_name, url, "y")
              simplified_url == get_simplified_amazon_url(url)
              began == [writers[w] EXCEPT
                          !.op = "register_new_product", !.name = product_name,
                          !.url = simplified_url,
                          !.id = hash_product_id(product_name, simplified_url),
                          !.n = @ + 1,
                          !.overlapped = @ \/ Pending(Other(w))]
          IN  writers' =
                 [writers EXCEPT
                    ![w] = IF "Appended new product" \in r.printed
                           THEN [began EXCEPT !.pc = "upload", !.local = r.registry]
                           ELSE began,
                    ![Other(w)].overlapped = @ \/ Pending(Other(w))]
    /\ UNCHANGED <<registry, product_cache, files, today, loadDay, clock, ret, run, outbox>>

\* archive_product up to the upload: the registry is downloaded (line 466), the
\* rows of the id get today's date and the copy is rewritten (lines 471-494);
\* without a row of the id the call returns False
BeginArchive(w) ==
    /\ writers[w].pc = "idle"
    /\ writers[w].n < MaxWrites
    /\ \E product_id \in RegistryIds \cup {UNKNOWN_ID} :
          LET r == archive_product(registry, writers[w].product_cache, product_id, today)
              began == [writers[w] EXCEPT
                          !.op = "archive_product", !.name = "", !.url = "",
                          !.id = product_id, !.n = @ + 1,
                          !.overlapped = @ \/ Pending(Other(w))]
          IN  writers' =
                 [writers EXCEPT
                    ![w] = IF r.result
                           THEN [began EXCEPT !.pc = "upload", !.local = r.registry]
                           ELSE began,
                    ![Other(w)].overlapped = @ \/ Pending(Other(w))]
    /\ UNCHANGED <<registry, product_cache, files, today, loadDay, clock, ret, run, outbox>>

\* upload_file (lines 253-255 and 497-499): the writer's copy replaces the
\* registry object as a whole; then register adds the product to the writer's
\* cache (line 257) and archive clears it (line 502)
Upload(w) ==
    /\ Pending(w)
    /\ registry' = writers[w].local
    /\ writers' =
          [writers EXCEPT
             ![w] = [@ EXCEPT
                       !.pc = "idle",
                       !.local = <<>>,
                       !.product_cache =
                           IF writers[w].op = "archive_product" THEN {}
                           ELSE @ \cup {ProductDTO(writers[w].name, writers[w].url,
                                                   writers[w].id, None, "")},
                       !.completed = @ \cup {[op |-> writers[w].op, id |-> writers[w].id]}]]
    /\ UNCHANGED <<product_cache, files, today, loadDay, clock, ret, run, outbox>>

NextWriters ==
    \E w \in DOMAIN NoWriters :
        \/ BeginRegister(w)
        \/ BeginArchive(w)
        \/ Upload(w)

SpecWriters == Init /\ [][NextWriters]_vars

----------------------------------------------------------------------------
(* Properties of concurrent writers *)

\* the updates that a writer completed (its upload succeeded)
Completed == UNION {writers[w].completed : w \in DOMAIN writers}

\* a product whose registration completed has no record
LostRegistrations ==
    {u.id : u \in {c \in Completed : c.op = "register_new_product"}} \ RegistryIds

\* a product whose archival completed has an active record
LostArchivals ==
    {u.id : u \in {c \in Completed : c.op = "archive_product"}}
        \cap {Rows[i][PRODUCT_ID_HEADER] :
                 i \in {j \in DOMAIN Rows : Rows[j][ARCHIVED_HEADER] = ""}}

\* no operation of a writer began while one of the other writer was between
\* its download and its upload
OneAfterTheOther == \A w \in DOMAIN writers : ~writers[w].overlapped

\* C23: with the writers executed one after the other no completed update is
\* ever lost: every product whose registration completed has a record, and
\* every product whose archival completed has no active record.  (That an
\* interleaving of two writers loses a completed update is the reachability of
\* C23_Witness.)
C23_NoLostUpdateOneAfterTheOther ==
    OneAfterTheOther => LostRegistrations = {} /\ LostArchivals = {}

\* two writers interleaved: the registration that writer 1 completed is absent
\* from the registry that writer 2 uploaded
C23_Witness ==
    /\ ~OneAfterTheOther
    /\ \A w \in DOMAIN writers : writers[w].pc = "idle"
    /\ LostRegistrations # {}
    /\ Len(registry.rows) = 1

----------------------------------------------------------------------------
(* Frame of archive_product *)

\* a step that is a call of archive_product
ArchiveStep == ret'.op = "archive_product" /\ today' = today

\* C24: archive_product(id) changes nothing but the archived field of the
\* records whose product_id is id, which becomes today's date: no record is
\* deleted or added, the order of the records and the name, url and id of every
\* record are kept, and so is the archived field of the other records; it
\* returns True.  When no record has that id it returns False and leaves the
\* registry and the cache as they are.
C24_ArchiveChangesArchivedFieldOnly ==
    [][ArchiveStep =>
          LET new == DictReader(registry')
          IN  IF ret'.id \in RegistryIds
              THEN /\ ret'.out = "True"
                   /\ DOMAIN new = DOMAIN Rows
                   /\ \A i \in DOMAIN Rows :
                         /\ new[i][PRODUCT_NAME_HEADER] = Rows[i][PRODUCT_NAME_HEADER]
                         /\ new[i][PRODUCT_URL_HEADER] = Rows[i][PRODUCT_URL_HEADER]
                         /\ new[i][PRODUCT_ID_HEADER] = Rows[i][PRODUCT_ID_HEADER]
                         /\ new[i][ARCHIVED_HEADER] =
                               (IF Rows[i][PRODUCT_ID_HEADER] = ret'.id THEN strftime(today)
                                ELSE Rows[i][ARCHIVED_HEADER])
              ELSE /\ ret'.out = "False"
                   /\ registry' = registry
                   /\ product_cache' = product_cache]_vars

C24_Witness ==
    /\ ret.op = "archive_product"
    /\ ret.out = "True"
    /\ Len(Rows) = 2
    /\ Rows[1][PRODUCT_ID_HEADER] = ret.id
    /\ Rows[1][ARCHIVED_HEADER] = strftime(today)
    /\ Rows[2][ARCHIVED_HEADER] = ""
    /\ Rows[2][PRODUCT_NAME_HEADER] = "Gadget"

----------------------------------------------------------------------------
(* Snapshots that hold a price that does not parse *)

\* extract_price_from_soup returns price_whole + price_fraction as the page
\* shows them: for a price of a thousand or more, with a thousands separator
MALFORMED == "1,299.00"

\* the snapshot that store_prices writes on `day` for the prices fetched
\* (None: the fetch of the product failed)
SnapshotOf(day, fetched) ==
    LET l == list_registered_products(TwoProducts, {}).result
    IN  store_prices([i \in DOMAIN l |-> [l[i] EXCEPT !.price = fetched[l[i].product_id]]],
                     day)

\* the buckets with the snapshots of two days, modified in either order, each
\* product with a price that parses, with one that does not, or without a row
MalformedBuckets ==
    {[key \in {SnapshotKey(1), SnapshotKey(2)} |->
         LET day == IF key = SnapshotKey(1) THEN 1 ELSE 2
         IN  [LastModified |-> modified[day], rows |-> SnapshotOf(day, fetched[day])]] :
     modified \in {<<1, 2>>, <<2, 1>>},
     fetched \in [1..2 -> [{WIDGET_ID, GADGET_ID} -> Prices \cup {MALFORMED, None}]]}

InitMalformed ==
    /\ registry = TwoProducts
    /\ product_cache = {}
    /\ files \in MalformedBuckets
    /\ today = 2
    /\ loadDay = 2
    /\ clock = 2
    /\ ret = [op |-> "import"] @@ NoCall
    /\ run = NoRun
    /\ outbox = <<>>
    /\ writers = NoWriters

NextMalformed ==
    \/ CheckPriceDrops
    \/ CheckAndProcessPriceDrops
    \/ RunCheckPriceDrops
    \/ PlotPriceGraphs
    \/ SendEmail

SpecMalformed == InitMalformed /\ [][NextMalformed]_vars

----------------------------------------------------------------------------
(* Properties of the comparison of prices that do not parse *)

\* the ids of the older snapshot (the products that are compared) whose price
\* in the older or in the newer snapshot does not parse as a number
ComparedMalformed ==
    {id \in IdsIn(OlderKey) :
        \E price \in PricesIn(OlderKey, id) \cup PricesIn(NewerKey, id) :
            Hundredths(price) < 0}

\* C25: when the older or the newer snapshot holds, for a product that is
\* compared, a price that does not parse as a number, check_price_drops raises
\* ValueError and returns no drop, for that product or another, and the
\* exception leaves check_and_process_price_drops: the run ends as Failed with
\* it, without a message.
C25_MalformedPriceIsFatal ==
    ComparedMalformed # {} =>
        /\ ret.op = "check_price_drops" => ret.out = "ValueError" /\ ret.drops = <<>>
        /\ run.pc \notin {"Idle", "Detecting"} =>
              /\ run.pc = "Failed"
              /\ run.error = "ValueError"
              /\ run.price_drops = <<>>
        /\ outbox = <<>>

C25_Witness ==
    /\ PricesIn(OlderKey, WIDGET_ID) = {"10.00"}
    /\ PricesIn(NewerKey, WIDGET_ID) = {MALFORMED}
    /\ PricesIn(OlderKey, GADGET_ID) = {"10.00"}
    /\ PricesIn(NewerKey, GADGET_ID) = {"9.99"}
    /\ ret.op = "check_price_drops"
    /\ ret.out = "ValueError"
    /\ run.pc = "Failed"
    /\ run.error = "ValueError"

----------------------------------------------------------------------------
(* Properties of the urls that are stored *)

\* the urls of the form https://www.amazon.com/<name>/dp/<ASIN>, for the names
\* (the empty one included) and the ASINs of the urls that are entered
CanonicalUrls ==
    {"https://www.amazon.com/" \o name \o "/dp/" \o asin :
        name \in {"", "Blue-Widget", "Amazon-Product"},
        asin \in {"B000000001", "B000000002"}}

\* C26: every record of the registry has a url of the form
\* https://www.amazon.com/<name>/dp/<ASIN>, and a call of register_new_product
\* whose url holds neither /dp/<ASIN> nor /gp/product/<ASIN> appends no record.
C26_PersistedUrlIsCanonical ==
    /\ \A i \in DOMAIN Rows : Rows[i][PRODUCT_URL_HEADER] \in CanonicalUrls
    /\ (ret.op = "register_new_product" /\ asin_search(path_parts(ret.url)) = "")
          => ~Appended

----------------------------------------------------------------------------
(* Properties of the key of a snapshot *)

\* C27: the day in the key of every snapshot file that store_prices wrote is
\* the date recorded in the rows of that file, also when the process that
\* writes was loaded on an earlier day.
C27_KeyDayIsDateOfRows ==
    \A key \in files_only : \A i \in DOMAIN files[key].rows :
        key = S3_PRICE_HISTORY_DIRECTORY \o "/" \o files[key].rows[i].date \o ".csv"

----------------------------------------------------------------------------
(* Properties of the snapshots that a run compares *)

\* the day that a date of a snapshot row denotes
DayOf(date) == CHOOSE day \in DOMAIN Digit : strftime(day) = date

\* the days recorded in the rows of a snapshot file
DaysIn(key) == {DayOf(files[key].rows[i].date) : i \in DOMAIN files[key].rows}

\* a run has stored its snapshot and is about to call check_price_drops, which
\* will find two snapshot files to compare
AboutToCompare ==
    /\ run.pc = "Detecting"
    /\ "Storing" \in Range(run.trace)
    /\ Cardinality(files_only) >= 2

\* C28: when a run that has stored its snapshot detects, the file that
\* check_price_drops takes as current (the most recently modified one) is the
\* snapshot that this run wrote, and the file it takes as previous (the second
\* most recently modified one) holds the prices of an earlier day than the
\* current one.
C28_CurrentIsOwnPreviousIsOfEarlierDay ==
    AboutToCompare =>
        LET current == NthMostRecent(0)
            previous == NthMostRecent(1)
        IN  /\ current = S3_PRICE_HISTORY_FILE_KEY
            /\ \E day \in {today - 1, today} :
                  files[current].rows = store_prices(run.products, day)
            /\ \A d \in DaysIn(previous), e \in DaysIn(current) : d < e

----------------------------------------------------------------------------
(* Uniqueness of the records *)

\* C29: after any sequence of register and archive operations of one process
\* on a registry that starts empty, no two records, active or archived, have
\* the same name compared in lower case, and no two have the same url.
C29_NamesAndUrlsUnique ==
    \A i, j \in DOMAIN Rows :
        i # j =>
            /\ lower(Rows[i][PRODUCT_NAME_HEADER]) # lower(Rows[j][PRODUCT_NAME_HEADER])
            /\ Rows[i][PRODUCT_URL_HEADER] # Rows[j][PRODUCT_URL_HEADER]

C29_Witness ==
    /\ Len(Rows) = 2
    /\ Rows[1][PRODUCT_NAME_HEADER] = "Widget"
    /\ Rows[1][ARCHIVED_HEADER] # ""
    /\ Rows[2][ARCHIVED_HEADER] = ""
    /\ ret.op = "register_new_product"
    /\ ret.name = "widget"
    /\ ret.printed = {"already exists in the registry."}

(* Quota exhaustion: how often the extraction begins again *)

\* the times this run entered the step named
Entered(step) ==
    Cardinality({k \in DOMAIN run.trace : run.trace[k] = step})

\* the extraction began again Restarts times after its first beginning
Restarts == IF run.trace = <<>> THEN 0 ELSE Entered("Scraping") - 1

\* "Detecting" is entered after an upload of the snapshot that succeeded
SnapshotUploads == Entered("Detecting")

====
